---- MODULE Spec2Model ----
(***************************************************************************)
(* HPACK (RFC 7541) encoder and decoder of chrismoos/hpack.                *)
(*                                                                         *)
(* Octet strings (header names, values, header blocks) are sequences of    *)
(* numbers 0..255.  A call that can fail returns a record whose field st   *)
(* is "ok", "err" (a Go error value was returned) or "panic" (the Go       *)
(* runtime or an explicit panic() aborted the call).                       *)
(***************************************************************************)
EXTENDS Integers, Sequences, FiniteSets, TLC

VARIABLES
  negotiated,  \* the max size NewEncoder and NewDecoder were given
  encoder,     \* the Encoder
  decoder,     \* the Decoder
  wire,        \* blocks the encoder returned, not yet given to the decoder
  last         \* the last call: its arguments, its result, the codecs before it

vars == <<negotiated, encoder, decoder, wire, last>>

(***************************************************************************)
(* Bounds of the model.                                                    *)
(***************************************************************************)
\* headers in the list given to one Encoder.Encode call
MaxHeaders == 2
\* representations concatenated into one block fed to the decoder directly
MaxFields == 2

(***************************************************************************)
(* Octet helpers.                                                          *)
(***************************************************************************)
Drop(s, k) == SubSeq(s, k + 1, Len(s))

Take(s, k) == SubSeq(s, 1, k)

\* b & m == m, for a mask m that is one bit
HasBit(b, m) == (b \div m) % 2 = 1

\* b & m == m, for a mask m that is one bit or 0
HasMask(b, m) == IF m = 0 THEN TRUE ELSE HasBit(b, m)

\* b | m, for a mask m that is one bit or 0
OrBit(b, m) == IF m = 0 \/ HasBit(b, m) THEN b ELSE b + m

\* buf with buf[0] |= m
OrFirst(buf, m) == [buf EXCEPT ![1] = OrBit(buf[1], m)]

Pow2(k) == 2 ^ k

(***************************************************************************)
(* Program constants.                                                      *)
(***************************************************************************)
headerFieldIndexed == 128
headerFieldLiteralIncrementalIndex == 64
headerFieldDynamicSizeUpdate == 32
headerFieldLiteralNeverIndexed == 16
headerFieldLiteralNotIndexed == 0
huffmanEncoded == 128

\* (1 << 32) - 1 in the source; the model checker's integers end at 2^31 - 1,
\* and no integer of a block of this model comes near either.
DefaultMaxIntegerValue == 2147483647
DefaultMaxIntegerEncodedLength == 6
DefaultMaxStringLiteralLength == 65536

ErrIntegerValueTooLarge == "integer value larger than max value"
ErrIntegerEncodedLengthTooLong == "integer encoded length is too long"
ErrStringLiteralLengthTooLong == "string literal length is too long"
ErrHuffmanDecodeFailure == "invalid huffman code encountered"
ErrHuffmanRanOut == "ran out of data while decoding huffman encoded data"
ErrIndexNotFound == "index not found in dynamic table"
ErrCantResize == "can't resize dynamic table in an update to a greater value"

(***************************************************************************)
(* The static table of RFC 7541 Appendix A and the two maps the encoder    *)
(* looks names up in.                                                      *)
(***************************************************************************)
staticTable ==
  <<
     << <<58, 97, 117, 116, 104, 111, 114, 105, 116, 121>>, <<>> >>,   \* 1  :authority  
     << <<58, 109, 101, 116, 104, 111, 100>>, <<71, 69, 84>> >>,   \* 2  :method  GET
     << <<58, 109, 101, 116, 104, 111, 100>>, <<80, 79, 83, 84>> >>,   \* 3  :method  POST
     << <<58, 112, 97, 116, 104>>, <<47>> >>,   \* 4  :path  /
     << <<58, 112, 97, 116, 104>>, <<47, 105, 110, 100, 101, 120, 46, 104, 116, 109, 108>> >>,   \* 5  :path  /index.html
     << <<58, 115, 99, 104, 101, 109, 101>>, <<104, 116, 116, 112>> >>,   \* 6  :scheme  http
     << <<58, 115, 99, 104, 101, 109, 101>>, <<104, 116, 116, 112, 115>> >>,   \* 7  :scheme  https
     << <<58, 115, 116, 97, 116, 117, 115>>, <<50, 48, 48>> >>,   \* 8  :status  200
     << <<58, 115, 116, 97, 116, 117, 115>>, <<50, 48, 52>> >>,   \* 9  :status  204
     << <<58, 115, 116, 97, 116, 117, 115>>, <<50, 48, 54>> >>,   \* 10  :status  206
     << <<58, 115, 116, 97, 116, 117, 115>>, <<51, 48, 52>> >>,   \* 11  :status  304
     << <<58, 115, 116, 97, 116, 117, 115>>, <<52, 48, 48>> >>,   \* 12  :status  400
     << <<58, 115, 116, 97, 116, 117, 115>>, <<52, 48, 52>> >>,   \* 13  :status  404
     << <<58, 115, 116, 97, 116, 117, 115>>, <<53, 48, 48>> >>,   \* 14  :status  500
     << <<97, 99, 99, 101, 112, 116, 45, 99, 104, 97, 114, 115, 101, 116>>, <<>> >>,   \* 15  accept-charset  
     << <<97, 99, 99, 101, 112, 116, 45, 101, 110, 99, 111, 100, 105, 110, 103>>, <<103, 122, 105, 112, 44, 32, 100, 101, 102, 108, 97, 116, 101>> >>,   \* 16  accept-encoding  gzip, deflate
     << <<97, 99, 99, 101, 112, 116, 45, 108, 97, 110, 103, 117, 97, 103, 101>>, <<>> >>,   \* 17  accept-language  
     << <<97, 99, 99, 101, 112, 116, 45, 114, 97, 110, 103, 101, 115>>, <<>> >>,   \* 18  accept-ranges  
     << <<97, 99, 99, 101, 112, 116>>, <<>> >>,   \* 19  accept  
     << <<97, 99, 99, 101, 115, 115, 45, 99, 111, 110, 116, 114, 111, 108, 45, 97, 108, 108, 111, 119, 45, 111, 114, 105, 103, 105, 110>>, <<>> >>,   \* 20  access-control-allow-origin  
     << <<97, 103, 101>>, <<>> >>,   \* 21  age  
     << <<97, 108, 108, 111, 119>>, <<>> >>,   \* 22  allow  
     << <<97, 117, 116, 104, 111, 114, 105, 122, 97, 116, 105, 111, 110>>, <<>> >>,   \* 23  authorization  
     << <<99, 97, 99, 104, 101, 45, 99, 111, 110, 116, 114, 111, 108>>, <<>> >>,   \* 24  cache-control  
     << <<99, 111, 110, 116, 101, 110, 116, 45, 100, 105, 115, 112, 111, 115, 105, 116, 105, 111, 110>>, <<>> >>,   \* 25  content-disposition  
     << <<99, 111, 110, 116, 101, 110, 116, 45, 101, 110, 99, 111, 100, 105, 110, 103>>, <<>> >>,   \* 26  content-encoding  
     << <<99, 111, 110, 116, 101, 110, 116, 45, 108, 97, 110, 103, 117, 97, 103, 101>>, <<>> >>,   \* 27  content-language  
     << <<99, 111, 110, 116, 101, 110, 116, 45, 108, 101, 110, 103, 116, 104>>, <<>> >>,   \* 28  content-length  
     << <<99, 111, 110, 116, 101, 110, 116, 45, 108, 111, 99, 97, 116, 105, 111, 110>>, <<>> >>,   \* 29  content-location  
     << <<99, 111, 110, 116, 101, 110, 116, 45, 114, 97, 110, 103, 101>>, <<>> >>,   \* 30  content-range  
     << <<99, 111, 110, 116, 101, 110, 116, 45, 116, 121, 112, 101>>, <<>> >>,   \* 31  content-type  
     << <<99, 111, 111, 107, 105, 101>>, <<>> >>,   \* 32  cookie  
     << <<100, 97, 116, 101>>, <<>> >>,   \* 33  date  
     << <<101, 116, 97, 103>>, <<>> >>,   \* 34  etag  
     << <<101, 120, 112, 101, 99, 116>>, <<>> >>,   \* 35  expect  
     << <<101, 120, 112, 105, 114, 101, 115>>, <<>> >>,   \* 36  expires  
     << <<102, 114, 111, 109>>, <<>> >>,   \* 37  from  
     << <<104, 111, 115, 116>>, <<>> >>,   \* 38  host  
     << <<105, 102, 45, 109, 97, 116, 99, 104>>, <<>> >>,   \* 39  if-match  
     << <<105, 102, 45, 109, 111, 100, 105, 102, 105, 101, 100, 45, 115, 105, 110, 99, 101>>, <<>> >>,   \* 40  if-modified-since  
     << <<105, 102, 45, 110, 111, 110, 101, 45, 109, 97, 116, 99, 104>>, <<>> >>,   \* 41  if-none-match  
     << <<105, 102, 45, 114, 97, 110, 103, 101>>, <<>> >>,   \* 42  if-range  
     << <<105, 102, 45, 117, 110, 109, 111, 100, 105, 102, 105, 101, 100, 45, 115, 105, 110, 99, 101>>, <<>> >>,   \* 43  if-unmodified-since  
     << <<108, 97, 115, 116, 45, 109, 111, 100, 105, 102, 105, 101, 100>>, <<>> >>,   \* 44  last-modified  
     << <<108, 105, 110, 107>>, <<>> >>,   \* 45  link  
     << <<108, 111, 99, 97, 116, 105, 111, 110>>, <<>> >>,   \* 46  location  
     << <<109, 97, 120, 45, 102, 111, 114, 119, 97, 114, 100, 115>>, <<>> >>,   \* 47  max-forwards  
     << <<112, 114, 111, 120, 121, 45, 97, 117, 116, 104, 101, 110, 116, 105, 99, 97, 116, 101>>, <<>> >>,   \* 48  proxy-authenticate  
     << <<112, 114, 111, 120, 121, 45, 97, 117, 116, 104, 111, 114, 105, 122, 97, 116, 105, 111, 110>>, <<>> >>,   \* 49  proxy-authorization  
     << <<114, 97, 110, 103, 101>>, <<>> >>,   \* 50  range  
     << <<114, 101, 102, 101, 114, 101, 114>>, <<>> >>,   \* 51  referer  
     << <<114, 101, 102, 114, 101, 115, 104>>, <<>> >>,   \* 52  refresh  
     << <<114, 101, 116, 114, 121, 45, 97, 102, 116, 101, 114>>, <<>> >>,   \* 53  retry-after  
     << <<115, 101, 114, 118, 101, 114>>, <<>> >>,   \* 54  server  
     << <<115, 101, 116, 45, 99, 111, 111, 107, 105, 101>>, <<>> >>,   \* 55  set-cookie  
     << <<115, 116, 114, 105, 99, 116, 45, 116, 114, 97, 110, 115, 112, 111, 114, 116, 45, 115, 101, 99, 117, 114, 105, 116, 121>>, <<>> >>,   \* 56  strict-transport-security  
     << <<116, 114, 97, 110, 115, 102, 101, 114, 45, 101, 110, 99, 111, 100, 105, 110, 103>>, <<>> >>,   \* 57  transfer-encoding  
     << <<117, 115, 101, 114, 45, 97, 103, 101, 110, 116>>, <<>> >>,   \* 58  user-agent  
     << <<118, 97, 114, 121>>, <<>> >>,   \* 59  vary  
     << <<118, 105, 97>>, <<>> >>,   \* 60  via  
     << <<119, 119, 119, 45, 97, 117, 116, 104, 101, 110, 116, 105, 99, 97, 116, 101>>, <<>> >>    \* 61  www-authenticate  
  >>

\* the least number of a non-empty set of numbers
Least(S) == CHOOSE i \in S : \A j \in S : i <= j

\* column k of a table of pairs
Column(table, k) == [i \in DOMAIN table |-> table[i][k]]

\* name + ":" + value of the entries that have a value
KeysOf(table) ==
  [i \in { j \in DOMAIN table : table[j][2] # <<>> } |->
     table[i][1] \o <<58>> \o table[i][2]]

\* the names of the static entries, and the keys name + ":" + value of those
\* that have a value
staticNames == Column(staticTable, 1)

staticKeys == KeysOf(staticTable)

\* the indices at which a map holds key
Matching(keys, key) == { i \in DOMAIN keys : keys[i] = key }

\* a Go map lookup: (entry, ok); a key given several times maps to its lowest index
Lookup(found) ==
  [entry |-> IF found = {} THEN 0 ELSE Least(found), ok |-> found # {}]

\* staticTableEncoding[name]
staticTableEncoding(name) == Lookup(Matching(staticNames, name))

\* staticTableEncodingWithValues[key]
staticTableEncodingWithValues(key) == Lookup(Matching(staticKeys, key))

(***************************************************************************)
(* Huffman codes of RFC 7541 Appendix B: symbol :> <<code, bits>>, for the  *)
(* symbols the strings of this model are made of, and EOS (256).           *)
(***************************************************************************)
huffmanCodes ==
     32 :> <<20, 6>> @@ 33 :> <<1016, 10>> @@ 34 :> <<1017, 10>> @@ 37 :> <<21, 6>> @@
     38 :> <<248, 8>> @@ 40 :> <<1018, 10>> @@ 41 :> <<1019, 10>> @@ 42 :> <<249, 8>> @@
     44 :> <<250, 8>> @@ 45 :> <<22, 6>> @@ 46 :> <<23, 6>> @@ 47 :> <<24, 6>> @@
     48 :> <<0, 5>> @@ 49 :> <<1, 5>> @@ 50 :> <<2, 5>> @@ 51 :> <<25, 6>> @@
     52 :> <<26, 6>> @@ 53 :> <<27, 6>> @@ 54 :> <<28, 6>> @@ 55 :> <<29, 6>> @@
     56 :> <<30, 6>> @@ 57 :> <<31, 6>> @@ 58 :> <<92, 7>> @@ 59 :> <<251, 8>> @@
     61 :> <<32, 6>> @@ 63 :> <<1020, 10>> @@ 65 :> <<33, 6>> @@ 66 :> <<93, 7>> @@
     67 :> <<94, 7>> @@ 68 :> <<95, 7>> @@ 69 :> <<96, 7>> @@ 70 :> <<97, 7>> @@
     71 :> <<98, 7>> @@ 72 :> <<99, 7>> @@ 73 :> <<100, 7>> @@ 74 :> <<101, 7>> @@
     75 :> <<102, 7>> @@ 76 :> <<103, 7>> @@ 77 :> <<104, 7>> @@ 78 :> <<105, 7>> @@
     79 :> <<106, 7>> @@ 80 :> <<107, 7>> @@ 81 :> <<108, 7>> @@ 82 :> <<109, 7>> @@
     83 :> <<110, 7>> @@ 84 :> <<111, 7>> @@ 85 :> <<112, 7>> @@ 86 :> <<113, 7>> @@
     87 :> <<114, 7>> @@ 88 :> <<252, 8>> @@ 89 :> <<115, 7>> @@ 90 :> <<253, 8>> @@
     95 :> <<34, 6>> @@ 97 :> <<3, 5>> @@ 98 :> <<35, 6>> @@ 99 :> <<4, 5>> @@
     100 :> <<36, 6>> @@ 101 :> <<5, 5>> @@ 102 :> <<37, 6>> @@ 103 :> <<38, 6>> @@
     104 :> <<39, 6>> @@ 105 :> <<6, 5>> @@ 106 :> <<116, 7>> @@ 107 :> <<117, 7>> @@
     108 :> <<40, 6>> @@ 109 :> <<41, 6>> @@ 110 :> <<42, 6>> @@ 111 :> <<7, 5>> @@
     112 :> <<43, 6>> @@ 113 :> <<118, 7>> @@ 114 :> <<44, 6>> @@ 115 :> <<8, 5>> @@
     116 :> <<9, 5>> @@ 117 :> <<45, 6>> @@ 118 :> <<119, 7>> @@ 119 :> <<120, 7>> @@
     120 :> <<121, 7>> @@ 121 :> <<122, 7>> @@ 122 :> <<123, 7>> @@ 256 :> <<1073741823, 30>>


(***************************************************************************)
(* integers.go: prefix-coded integers.                                      *)
(***************************************************************************)
IntOk(rest, prefix, n) ==
  [st |-> "ok", err |-> "", rest |-> rest, prefix |-> prefix, number |-> n]

IntErr(e) ==
  [st |-> "err", err |-> e, rest |-> <<>>, prefix |-> 0, number |-> 0]

IntPanic(e) ==
  [st |-> "panic", err |-> e, rest |-> <<>>, prefix |-> 0, number |-> 0]

RECURSIVE decodeIntegerLoop(_, _, _, _, _, _, _)
\* the for loop of decodeInteger; idx is the Go (0-based) index
decodeIntegerLoop(buf, prefix, n, idx, m, integerMax, encodedLengthMax) ==
  IF idx = Len(buf) THEN IntPanic("ran out of data while reading HPACK integer")
  ELSE LET b  == buf[idx + 1]
           n2 == n + (b % 128) * Pow2(m)
       IN  IF ~HasBit(b, 128)
           THEN IF n2 > integerMax THEN IntErr(ErrIntegerValueTooLarge)
                ELSE IntOk(Drop(buf, idx + 1), prefix, n2)
           ELSE IF idx + 1 = encodedLengthMax
                THEN IntErr(ErrIntegerEncodedLengthTooLong)
                ELSE decodeIntegerLoop(buf, prefix, n2, idx + 1, m + 7,
                                       integerMax, encodedLengthMax)

decodeInteger(buf, prefixLength, integerMax, encodedLengthMax) ==
  IF prefixLength < 1 \/ prefixLength > 8
  THEN IntPanic("prefix length in bits must be >= 1 and <= 8")
  ELSE IF Len(buf) = 0 THEN IntPanic("index out of range [0] with length 0")
  ELSE LET mask   == Pow2(prefixLength) - 1
           n      == buf[1] % (mask + 1)
           prefix == buf[1] - n
       IN  IF n # mask THEN IntOk(Drop(buf, 1), prefix, n)
           ELSE decodeIntegerLoop(buf, prefix, n, 1, 0, integerMax, encodedLengthMax)

\* Decoder.DecodeInteger
DecodeInteger(d, buf, prefixLength) ==
  decodeInteger(buf, prefixLength, d.integerValueMax, d.integerEncodedLengthMax)

RECURSIVE encodeIntegerLoop_NoContinuation(_, _)
\* the loop appending i%128 without the continuation bit
encodeIntegerLoop_NoContinuation(buf, i) ==
  IF i >= 128 THEN encodeIntegerLoop_NoContinuation(Append(buf, i % 128), i \div 128)
  ELSE Append(buf, i % 256)

RECURSIVE encodeIntegerLoop(_, _)
\* for i >= 128 { append (i%128)+128; i /= 128 }; append i
encodeIntegerLoop(buf, i) ==
  IF i >= 128 THEN encodeIntegerLoop(Append(buf, (i % 128) + 128), i \div 128)
  ELSE Append(buf, i % 256)

\* the octet of a small number with its top bit set
encodeInteger_TopBit(number, prefixLength) ==
  IF number < Pow2(prefixLength) - 1 THEN << (number + 128) % 256 >>
  ELSE encodeIntegerLoop(<< (Pow2(prefixLength) - 1) % 256 >>,
                         number - (Pow2(prefixLength) - 1))

\* the number 2^N - 1 itself kept in the prefix
encodeInteger_Inclusive(number, prefixLength) ==
  IF number <= Pow2(prefixLength) - 1 THEN << number % 256 >>
  ELSE encodeIntegerLoop(<< (Pow2(prefixLength) - 1) % 256 >>,
                         number - (Pow2(prefixLength) - 1))

encodeInteger(number, prefixLength) ==
  IF number < Pow2(prefixLength) - 1 THEN << number % 256 >>
  ELSE encodeIntegerLoop(<< (Pow2(prefixLength) - 1) % 256 >>,
                         number - (Pow2(prefixLength) - 1))

(***************************************************************************)
(* Huffman coding.  A bit string is a sequence of 0s and 1s.               *)
(***************************************************************************)
\* the bits of code, most significant first
CodeBits(code, bits) == [i \in 1..bits |-> (code \div Pow2(bits - i)) % 2]

RECURSIVE BitsOfBytes(_)
BitsOfBytes(buf) ==
  IF buf = <<>> THEN <<>>
  ELSE CodeBits(buf[1], 8) \o BitsOfBytes(Tail(buf))

\* the value of 8 bits
OctetOfBits(bs) ==
  128 * bs[1] + 64 * bs[2] + 32 * bs[3] + 16 * bs[4] + 8 * bs[5] + 4 * bs[6]
    + 2 * bs[7] + bs[8]

RECURSIVE BytesOfBits(_)
\* whole octets only
BytesOfBits(bs) ==
  IF Len(bs) < 8 THEN <<>>
  ELSE << OctetOfBits(bs) >> \o BytesOfBits(Drop(bs, 8))

\* the codes of a table as bit strings
BitsOfCodes(codes) == [s \in DOMAIN codes |-> CodeBits(codes[s][1], codes[s][2])]

\* the code of every symbol as a bit string
huffmanBits == BitsOfCodes(huffmanCodes)

RECURSIVE HuffmanBits(_)
\* the codes of data, one after the other
HuffmanBits(data) ==
  IF data = <<>> THEN <<>>
  ELSE huffmanBits[data[1]] \o HuffmanBits(Tail(data))

\* the last octet filled up with zeros
HuffmanPad_Zeros(bs, eos) ==
  IF Len(bs) % 8 > 0
  THEN BytesOfBits(bs \o [i \in 1..(8 - (Len(bs) % 8)) |-> 0])
  ELSE BytesOfBits(bs)

\* the end of HuffmanEncode: 1..7 bits left over are shifted to the top of a last
\* octet, filled up with the top bits of EOS
HuffmanPad(bs, eos) ==
  IF Len(bs) % 8 > 0 THEN BytesOfBits(bs \o Take(eos, 8 - (Len(bs) % 8)))
  ELSE BytesOfBits(bs)

\* HuffmanEncode: full octets are emitted as they fill
HuffmanEncode(data) == HuffmanPad(HuffmanBits(data), huffmanBits[256])

\* bitReader.PeekBits(32): the window, zero-filled after the end of the buffer,
\* and the number of bits read: PeekBits reads 40 bits, an octet at a time, and
\* returns the count of the bits it read when it meets the end of the buffer
PeekBits(bs, pos) ==
  [window   |-> [i \in 1..32 |-> IF pos + i <= Len(bs) THEN bs[pos + i] ELSE 0],
   bitsRead |-> IF Len(bs) - pos <= 40 THEN Len(bs) - pos ELSE 32]

\* the symbols of a table whose code starts the window
LeafOf(codes, window) ==
  { s \in (DOMAIN codes) \ {256} :
      \A i \in 1..Len(codes[s]) : window[i] = codes[s][i] }

\* the symbols whose code starts the window (at most one: the codes are prefix-free)
LookupLeaf(window) == LeafOf(huffmanBits, window)

RECURSIVE HuffmanDecodeLoop(_, _, _)
\* a leaf was found: the symbol is kept when all its bits were read
HuffmanDecodeSymbol(bs, pos, decoded, bitsRead, s, bits) ==
  HuffmanDecodeLoop(bs, pos + bits,
                    IF bitsRead >= bits THEN Append(decoded, s) ELSE decoded)

\* one turn of the loop of HuffmanDecode, after the table lookup
HuffmanDecodeLeaf(bs, pos, decoded, bitsRead, leaf) ==
  IF leaf # {}
  THEN HuffmanDecodeSymbol(bs, pos, decoded, bitsRead, CHOOSE x \in leaf : TRUE,
                           Len(huffmanBits[CHOOSE x \in leaf : TRUE]))
  ELSE IF bitsRead <= 7 THEN [st |-> "ok", err |-> "", decoded |-> decoded]
       ELSE [st |-> "err", err |-> ErrHuffmanDecodeFailure, decoded |-> <<>>]

\* one turn of the loop of HuffmanDecode, after PeekBits
HuffmanDecodePeeked(bs, pos, decoded, pk) ==
  HuffmanDecodeLeaf(bs, pos, decoded, pk.bitsRead, LookupLeaf(pk.window))

HuffmanDecodeLoop(bs, pos, decoded) ==
  IF Len(bs) - pos < 5 THEN [st |-> "ok", err |-> "", decoded |-> decoded]
  ELSE HuffmanDecodePeeked(bs, pos, decoded, PeekBits(bs, pos))

HuffmanDecode(encoded) == HuffmanDecodeLoop(BitsOfBytes(encoded), 0, <<>>)

(***************************************************************************)
(* String literals.                                                        *)
(***************************************************************************)
\* the length always in one octet
LengthPrefixed_OneOctet(value, prefixLength, huffman) ==
  << Len(value) % 256 >> \o value

\* the length of value, flagged when value is Huffman coded, and value
LengthPrefixed(value, prefixLength, huffman) ==
  (IF huffman THEN OrFirst(encodeInteger(Len(value), prefixLength), huffmanEncoded)
   ELSE encodeInteger(Len(value), prefixLength)) \o value

encodeLiteralString(str, prefixLength, huffman) ==
  LengthPrefixed(IF huffman THEN HuffmanEncode(str) ELSE str, prefixLength, huffman)

StrOk(rest, str) == [st |-> "ok", err |-> "", rest |-> rest, str |-> str]

StrErr(rest, e) == [st |-> "err", err |-> e, rest |-> rest, str |-> <<>>]

StrPanic(e) == [st |-> "panic", err |-> e, rest |-> <<>>, str |-> <<>>]

\* readPrefixedLengthString, the Huffman branch after HuffmanDecode
HuffmanString(rest, length, h) ==
  IF h.st = "err" THEN StrErr(rest, h.err)
  ELSE StrOk(Drop(rest, length), h.decoded)

\* readPrefixedLengthString comparing the length with the limit only after it
\* took the payload
StringOfLength_AfterPayload(d, buf, r) ==
  IF r.st = "panic" THEN StrPanic(r.err)
  ELSE IF r.st = "err" THEN StrErr(buf, r.err)
  ELSE IF HasBit(r.prefix, huffmanEncoded)
       THEN IF Len(r.rest) < r.number THEN StrErr(<<>>, ErrHuffmanRanOut)
            ELSE HuffmanString(r.rest, r.number, HuffmanDecode(Take(r.rest, r.number)))
       ELSE IF r.number > Len(r.rest)
            THEN StrPanic("slice bounds out of range")
            ELSE IF r.number > d.stringLiteralLengthMax
                 THEN StrErr(buf, ErrStringLiteralLengthTooLong)
                 ELSE StrOk(Drop(r.rest, r.number), Take(r.rest, r.number))

\* readPrefixedLengthString, after the length r was decoded
StringOfLength(d, buf, r) ==
  IF r.st = "panic" THEN StrPanic(r.err)
  ELSE IF r.st = "err" THEN StrErr(buf, r.err)
  ELSE IF r.number > d.stringLiteralLengthMax
       THEN StrErr(buf, ErrStringLiteralLengthTooLong)
  ELSE IF HasBit(r.prefix, huffmanEncoded)
       THEN IF Len(r.rest) < r.number THEN StrErr(<<>>, ErrHuffmanRanOut)
            ELSE HuffmanString(r.rest, r.number, HuffmanDecode(Take(r.rest, r.number)))
       ELSE IF r.number > Len(r.rest)
            THEN StrPanic("slice bounds out of range")
            ELSE StrOk(Drop(r.rest, r.number), Take(r.rest, r.number))

\* Decoder.readPrefixedLengthString
readPrefixedLengthString(d, buf, prefixLength) ==
  StringOfLength(d, buf, DecodeInteger(d, buf, prefixLength))

(***************************************************************************)
(* The dynamic table.  An entry is [Name, Value]; entry 1 is the newest.    *)
(***************************************************************************)
NewEncoder(dynamicTableSizeMax) ==
  [dynamicTable                  |-> <<>>,
   dynamicTableSizeMax           |-> dynamicTableSizeMax,
   dynamicTableSizeCurrent       |-> 0,
   pendingDynamicTableSizeUpdate |-> FALSE]

NewDecoder(dynamicTableSizeMax) ==
  [dynamicTable            |-> <<>>,
   dynamicTableSizeMax     |-> dynamicTableSizeMax,
   dynamicTableSizeCurrent |-> 0,
   integerEncodedLengthMax |-> DefaultMaxIntegerEncodedLength,
   integerValueMax         |-> DefaultMaxIntegerValue,
   stringLiteralLengthMax  |-> DefaultMaxStringLiteralLength]

\* 32 + len(name) + len(value)
EntrySize(name, value) == 32 + Len(name) + Len(value)

RECURSIVE Encoder_evictEntries_NoAccounting(_, _, _)
\* Encoder.evictEntries, taking only the 32 octets of overhead off the current size
Encoder_evictEntries_NoAccounting(e, additionalSize, maxSize) ==
  IF e.dynamicTableSizeCurrent + additionalSize > maxSize /\ Len(e.dynamicTable) > 0
  THEN LET r == Encoder_evictEntries_NoAccounting(
                  [e EXCEPT !.dynamicTableSizeCurrent = @ - 32,
                            !.dynamicTable = Take(@, Len(@) - 1)],
                  additionalSize, maxSize)
       IN  r
  ELSE [c |-> e, ok |-> e.dynamicTableSizeCurrent + additionalSize <= maxSize]

RECURSIVE Encoder_evictEntries(_, _, _)
\* returns the encoder and whether there is room for additionalSize
Encoder_evictEntries(e, additionalSize, maxSize) ==
  IF e.dynamicTableSizeCurrent + additionalSize > maxSize
  THEN IF Len(e.dynamicTable) = 0 THEN [c |-> e, ok |-> FALSE]
       ELSE LET evictedEntry == e.dynamicTable[Len(e.dynamicTable)]
            IN  Encoder_evictEntries(
                  [e EXCEPT !.dynamicTableSizeCurrent =
                              @ - EntrySize(evictedEntry.Name, evictedEntry.Value),
                            !.dynamicTable = Take(@, Len(@) - 1)],
                  additionalSize, maxSize)
  ELSE [c |-> e, ok |-> TRUE]

RECURSIVE Decoder_evictEntries_Newest(_, _, _)
\* Decoder.evictEntries taking the entry at the head of the table
Decoder_evictEntries_Newest(d, additionalSize, maxSize) ==
  IF d.dynamicTableSizeCurrent + additionalSize > maxSize
  THEN IF Len(d.dynamicTable) = 0 THEN [c |-> d, ok |-> FALSE]
       ELSE LET evictedEntry == d.dynamicTable[1]
            IN  Decoder_evictEntries_Newest(
                  [d EXCEPT !.dynamicTableSizeCurrent =
                              @ - EntrySize(evictedEntry.Name, evictedEntry.Value),
                            !.dynamicTable = Tail(@)],
                  additionalSize, maxSize)
  ELSE [c |-> d, ok |-> TRUE]

RECURSIVE Decoder_evictEntries(_, _, _)
Decoder_evictEntries(d, additionalSize, maxSize) ==
  IF d.dynamicTableSizeCurrent + additionalSize > maxSize
  THEN IF Len(d.dynamicTable) = 0 THEN [c |-> d, ok |-> FALSE]
       ELSE LET evictedEntry == d.dynamicTable[Len(d.dynamicTable)]
            IN  Decoder_evictEntries(
                  [d EXCEPT !.dynamicTableSizeCurrent =
                              @ - EntrySize(evictedEntry.Name, evictedEntry.Value),
                            !.dynamicTable = Take(@, Len(@) - 1)],
                  additionalSize, maxSize)
  ELSE [c |-> d, ok |-> TRUE]

Encoder_addNewDynamicEntry(e, name, value) ==
  LET entrySize == EntrySize(name, value)
      ev        == Encoder_evictEntries(e, entrySize, e.dynamicTableSizeMax)
  IN  IF ~ev.ok THEN ev.c
      ELSE [ev.c EXCEPT !.dynamicTableSizeCurrent = @ + entrySize,
                        !.dynamicTable = << [Name |-> name, Value |-> value] >> \o @]

\* Decoder.addNewDynamicEntry, giving up before it evicts when the entry cannot fit
Decoder_addNewDynamicEntry_KeepTable(d, name, value) ==
  LET entrySize == EntrySize(name, value)
      ev        == Decoder_evictEntries(d, entrySize, d.dynamicTableSizeMax)
  IN  IF entrySize > d.dynamicTableSizeMax THEN d
      ELSE [ev.c EXCEPT !.dynamicTableSizeCurrent = @ + entrySize,
                        !.dynamicTable = << [Name |-> name, Value |-> value] >> \o @]

Decoder_addNewDynamicEntry(d, name, value) ==
  LET entrySize == EntrySize(name, value)
      ev        == Decoder_evictEntries(d, entrySize, d.dynamicTableSizeMax)
  IN  IF ~ev.ok THEN ev.c
      ELSE [ev.c EXCEPT !.dynamicTableSizeCurrent = @ + entrySize,
                        !.dynamicTable = << [Name |-> name, Value |-> value] >> \o @]

Encoder_SetDynamicTableMaxSize(e, newMaxSize) ==
  LET ev == Encoder_evictEntries([e EXCEPT !.dynamicTableSizeMax = newMaxSize],
                                 0, newMaxSize)
  IN  [ev.c EXCEPT !.pendingDynamicTableSizeUpdate = TRUE]

\* Decoder.SetDynamicTableMaxSize setting the max size and evicting nothing
Decoder_SetDynamicTableMaxSize_NoEviction(d, newMaxSize) ==
  [d EXCEPT !.dynamicTableSizeMax = newMaxSize]

Decoder_SetDynamicTableMaxSize(d, newMaxSize) ==
  Decoder_evictEntries([d EXCEPT !.dynamicTableSizeMax = newMaxSize], 0, newMaxSize).c

(***************************************************************************)
(* The encoder.                                                            *)
(***************************************************************************)
RECURSIVE FirstDynamic(_, _, _, _)
\* the range loop of findHeaderInTable; x is the Go (0-based) index
FirstDynamic(table, name, value, x) ==
  IF x >= Len(table) THEN -1
  ELSE IF table[x + 1].Name = name /\ table[x + 1].Value = value THEN x
  ELSE FirstDynamic(table, name, value, x + 1)

\* the result of findHeaderInTable from its three lookups
FoundHeader(value, withValue, x, byName) ==
  IF value # <<>> /\ withValue.ok THEN <<withValue.entry, TRUE>>
  ELSE IF x # -1 THEN <<Len(staticTable) + x + 1, TRUE>>
  ELSE IF byName.ok THEN <<byName.entry, FALSE>>
  ELSE <<-1, FALSE>>

\* Encoder.findHeaderInTable: (index, valueIndexed); index -1 when not found
findHeaderInTable(e, name, value) ==
  FoundHeader(value, staticTableEncodingWithValues(name \o <<58>> \o value),
              FirstDynamic(e.dynamicTable, name, value, 0), staticTableEncoding(name))

\* the index of a map lookup, -1 when the key is missing
EntryOrNone(byName) == IF byName.ok THEN byName.entry ELSE -1

findStaticEntryInTable(name) == EntryOrNone(staticTableEncoding(name))

\* a pending size update written twice
PendingSizeUpdate_Twice(e) ==
  IF e.pendingDynamicTableSizeUpdate
  THEN OrFirst(encodeInteger(e.dynamicTableSizeMax, 5), headerFieldDynamicSizeUpdate)
         \o OrFirst(encodeInteger(e.dynamicTableSizeMax, 5),
                    headerFieldDynamicSizeUpdate)
  ELSE <<>>

\* the size update encodeHeaderField starts with when one is pending
PendingSizeUpdate(e) ==
  IF e.pendingDynamicTableSizeUpdate
  THEN OrFirst(encodeInteger(e.dynamicTableSizeMax, 5), headerFieldDynamicSizeUpdate)
  ELSE <<>>

\* the name of a literal: the index of the name, or 0 and the name itself
LiteralName(index, prefixLength, flag, name, huffman) ==
  IF index # -1 THEN OrFirst(encodeInteger(index, prefixLength), flag)
  ELSE OrFirst(encodeInteger(0, prefixLength), flag)
         \o encodeLiteralString(name, 7, huffman)

\* the sensitive branch, written with the flag of a literal with incremental indexing
EncodeSensitive_Incremental(header, huffman) ==
  LiteralName(findStaticEntryInTable(header.Name), 4,
              headerFieldLiteralIncrementalIndex, header.Name, huffman)
    \o encodeLiteralString(header.Value, 7, huffman)

\* the branch of encodeHeaderField for a sensitive header
EncodeSensitive(header, huffman) ==
  LiteralName(findStaticEntryInTable(header.Name), 4,
              headerFieldLiteralNeverIndexed, header.Name, huffman)
    \o encodeLiteralString(header.Value, 7, huffman)

\* the branch of encodeHeaderField for a header that is no entry of the tables:
\* a literal, its name by index when a static entry has the name
EncodeLiteral(e, header, huffman, addDynamicIndex, index) ==
  [encoder |-> IF addDynamicIndex
               THEN Encoder_addNewDynamicEntry(e, header.Name, header.Value)
               ELSE e,
   encoded |-> LiteralName(index, 6,
                           IF addDynamicIndex THEN headerFieldLiteralIncrementalIndex
                           ELSE headerFieldLiteralNotIndexed,
                           header.Name, huffman)
                 \o encodeLiteralString(header.Value, 7, huffman)]

\* the branch of encodeHeaderField for a header that is not sensitive, after
\* findHeaderInTable returned found = (index, valueIndexed)
EncodeFound(e, header, huffman, addDynamicIndex, found) ==
  IF found[1] # -1 /\ found[2]
  THEN [encoder |-> e,
        encoded |-> OrFirst(encodeInteger(found[1], 7), headerFieldIndexed)]
  ELSE EncodeLiteral(e, header, huffman, addDynamicIndex, found[1])

\* the octets of a field after the size update that was pending
AfterPending(sizeUpdate, r) ==
  [encoder |-> r.encoder, encoded |-> sizeUpdate \o r.encoded]

\* e with no size update pending
Cleared(e) == [e EXCEPT !.pendingDynamicTableSizeUpdate = FALSE]

\* Encoder.encodeHeaderField: the encoder after the call and the octets returned
encodeHeaderField(e, header, huffman, addDynamicIndex) ==
  AfterPending(PendingSizeUpdate(e),
    IF header.Sensitive
    THEN [encoder |-> Cleared(e), encoded |-> EncodeSensitive(header, huffman)]
    ELSE EncodeFound(Cleared(e), header, huffman, addDynamicIndex,
                     findHeaderInTable(e, header.Name, header.Value)))

EncodeNoDynamicIndexing(e, header, huffman) ==
  encodeHeaderField(e, header, huffman, FALSE)

EncodeIndexed(e, header, huffman) ==
  encodeHeaderField(e, header, huffman, TRUE)

\* encoded = append(encoded, enc...)
Appended(octets, more) ==
  [encoder |-> more.encoder, encoded |-> octets \o more.encoded]

RECURSIVE encode(_, _, _)
\* the loop of Encoder.encode after the first header was encoded
encodeRest(enc, headers, huffman) ==
  Appended(enc.encoded, encode(enc.encoder, headers, huffman))

\* Encoder.encode: EncodeIndexed of every header, the outputs concatenated
encode(e, headers, huffman) ==
  IF headers = <<>> THEN [encoder |-> e, encoded |-> <<>>]
  ELSE encodeRest(EncodeIndexed(e, headers[1], huffman), Tail(headers), huffman)

\* Encoder.Encode: incremental indexing, Huffman on
Encode(e, headers) == encode(e, headers, TRUE)

(***************************************************************************)
(* The decoder.  A parser returns [st, err, rest, hdr, d, index]: hdr is    *)
(* <<>> (nil) or a one-element sequence holding the header, d the decoder   *)
(* after the call, index the integer the representation starts with (-1     *)
(* when it could not be read).                                             *)
(***************************************************************************)
Header(name, value, sensitive) ==
  [Name |-> name, Value |-> value, Sensitive |-> sensitive]

ParseOk(d, rest, hdr, index) ==
  [st |-> "ok", err |-> "", rest |-> rest, hdr |-> hdr, d |-> d, index |-> index]

ParseErr(d, rest, e, index) ==
  [st |-> "err", err |-> e, rest |-> rest, hdr |-> <<>>, d |-> d, index |-> index]

ParsePanic(d, e, index) ==
  [st |-> "panic", err |-> e, rest |-> <<>>, hdr |-> <<>>, d |-> d, index |-> index]

\* the outcome of a call that ended like the failed call r (an error or a panic)
ParseFail(d, r, rest, index) ==
  IF r.st = "panic" THEN ParsePanic(d, r.err, index) ELSE ParseErr(d, rest, r.err, index)

\* Decoder.getIndexedNameValue
getIndexedNameValue(d, index) ==
  IF index > Len(staticTable)
  THEN IF index - Len(staticTable) > Len(d.dynamicTable)
       THEN [st |-> "err", err |-> ErrIndexNotFound, name |-> <<>>, value |-> <<>>]
       ELSE [st |-> "ok", err |-> "",
             name  |-> d.dynamicTable[index - Len(staticTable)].Name,
             value |-> d.dynamicTable[index - Len(staticTable)].Value]
  ELSE IF index - 1 < 0
       THEN [st |-> "panic", err |-> "index out of range [-1]",
             name |-> <<>>, value |-> <<>>]
       ELSE [st |-> "ok", err |-> "",
             name |-> staticTable[index][1], value |-> staticTable[index][2]]

\* parseHeaderFieldIndexed after the table lookup
IndexedEntry(d, i, nv) ==
  IF nv.st # "ok" THEN ParseFail(d, nv, <<>>, i.number)
  ELSE ParseOk(d, i.rest, << Header(nv.name, nv.value, FALSE) >>, i.number)

\* parseHeaderFieldIndexed after the index was decoded
IndexedAt(d, i) ==
  IF i.st # "ok" THEN ParseFail(d, i, <<>>, -1)
  ELSE IndexedEntry(d, i, getIndexedNameValue(d, i.number))

parseHeaderFieldIndexed(d, encoded) == IndexedAt(d, DecodeInteger(d, encoded, 7))

\* the name of a literal as a string read from the block
NameRead(lit) == [st |-> lit.st, err |-> lit.err, rest |-> lit.rest, name |-> lit.str]

\* the name of a literal as the name of a table entry
NameIndexed(nv, rest) == [st |-> nv.st, err |-> nv.err, rest |-> rest, name |-> nv.name]

\* if index == 0 { name = readPrefixedLengthString } else { name = getIndexedNameValue }
LiteralNameOf(d, i) ==
  IF i.number = 0 THEN NameRead(readPrefixedLengthString(d, i.rest, 7))
  ELSE NameIndexed(getIndexedNameValue(d, i.number), i.rest)

\* the end of a literal that enters its header in the dynamic table whatever
\* the representation
LiteralValue_AlwaysIndexing(d, index, name, v, indexing) ==
  IF v.st # "ok" THEN ParseFail(d, v, <<>>, index)
  ELSE ParseOk(Decoder_addNewDynamicEntry(d, name, v.str),
               v.rest, << Header(name, v.str, FALSE) >>, index)

\* the end of a literal: the header, entered in the dynamic table when indexing
LiteralValue(d, index, name, v, indexing) ==
  IF v.st # "ok" THEN ParseFail(d, v, <<>>, index)
  ELSE ParseOk(IF indexing THEN Decoder_addNewDynamicEntry(d, name, v.str) ELSE d,
               v.rest, << Header(name, v.str, FALSE) >>, index)

\* a literal after its name was read
LiteralNamed(d, index, nm, indexing) ==
  IF nm.st # "ok" THEN ParseFail(d, nm, <<>>, index)
  ELSE LiteralValue(d, index, nm.name, readPrefixedLengthString(d, nm.rest, 7),
                    indexing)

\* a literal after its index was decoded
LiteralAt(d, i, indexing) ==
  IF i.st # "ok" THEN ParseFail(d, i, <<>>, -1)
  ELSE LiteralNamed(d, i.number, LiteralNameOf(d, i), indexing)

parseHeaderFieldIncrementalIndex(d, encoded) ==
  LiteralAt(d, DecodeInteger(d, encoded, 6), TRUE)

\* parseDynamicSizeUpdate after the size was decoded
SizeUpdateTo(d, i) ==
  IF i.st # "ok" THEN ParseFail(d, i, <<>>, -1)
  ELSE IF i.number > d.dynamicTableSizeMax
       THEN ParseErr(d, i.rest, ErrCantResize, i.number)
  ELSE ParseOk(Decoder_SetDynamicTableMaxSize(d, i.number), i.rest, <<>>, i.number)

\* returns (consumed, err); hdr stays nil
parseDynamicSizeUpdate(d, encoded) == SizeUpdateTo(d, DecodeInteger(d, encoded, 5))

parseHeaderFieldNotIndexed(d, encoded) ==
  LiteralAt(d, DecodeInteger(d, encoded, 4), FALSE)

\* the header left as parseHeaderFieldNotIndexed returned it
MarkSensitive_Unmarked(r) == r

\* header.Sensitive = true, when a header was returned
MarkSensitive(r) ==
  IF r.st # "ok" THEN r
  ELSE [r EXCEPT !.hdr = << [r.hdr[1] EXCEPT !.Sensitive = TRUE] >>]

\* the mask tests made from the least specific mask to the most specific one
RepresentationOf_LeastSpecificFirst(octet) ==
  IF HasMask(octet, headerFieldLiteralNotIndexed) THEN "NotIndexed"
  ELSE IF HasMask(octet, headerFieldLiteralNeverIndexed) THEN "NeverIndexed"
  ELSE IF HasMask(octet, headerFieldDynamicSizeUpdate) THEN "DynamicSizeUpdate"
  ELSE IF HasMask(octet, headerFieldLiteralIncrementalIndex) THEN "IncrementalIndex"
  ELSE IF HasMask(octet, headerFieldIndexed) THEN "Indexed"
  ELSE "Unknown"

\* the representation the first octet selects, in the order of the mask tests;
\* "Unknown" stands for the branch that panics
RepresentationOf(octet) ==
  IF HasMask(octet, headerFieldIndexed) THEN "Indexed"
  ELSE IF HasMask(octet, headerFieldLiteralIncrementalIndex) THEN "IncrementalIndex"
  ELSE IF HasMask(octet, headerFieldDynamicSizeUpdate) THEN "DynamicSizeUpdate"
  ELSE IF HasMask(octet, headerFieldLiteralNeverIndexed) THEN "NeverIndexed"
  ELSE IF HasMask(octet, headerFieldLiteralNotIndexed) THEN "NotIndexed"
  ELSE "Unknown"

\* the parser the representation selects
ParseAs(d, encoded, kind) ==
  IF kind = "Indexed" THEN parseHeaderFieldIndexed(d, encoded)
  ELSE IF kind = "IncrementalIndex" THEN parseHeaderFieldIncrementalIndex(d, encoded)
  ELSE IF kind = "DynamicSizeUpdate" THEN parseDynamicSizeUpdate(d, encoded)
  ELSE IF kind = "NeverIndexed"
       THEN MarkSensitive(parseHeaderFieldNotIndexed(d, encoded))
  ELSE IF kind = "NotIndexed" THEN parseHeaderFieldNotIndexed(d, encoded)
  ELSE ParsePanic(d, "unknown type", -1)

\* Decoder.parseHeaderField; encoded is not empty
parseHeaderField(d, encoded) == ParseAs(d, encoded, RepresentationOf(encoded[1]))

\* what Decode met at one step of its loop: the representation, its integer,
\* the dynamic table's length and max size before the step, how it ended, and
\* the header parseHeaderField returned, if any
Step(d, buf, r) ==
  [kind |-> RepresentationOf(buf[1]), index |-> r.index, st |-> r.st,
   entries |-> Len(d.dynamicTable), max |-> d.dynamicTableSizeMax, hdr |-> r.hdr]

RECURSIVE DecodeLoop(_, _, _, _)
\* one turn of the loop of Decoder.Decode, after parseHeaderField returned r
DecodeParsed(headers, r, steps) ==
  IF r.st # "ok"
  THEN [st |-> r.st, err |-> r.err, headers |-> <<>>, d |-> r.d, steps |-> steps]
  ELSE DecodeLoop(r.d, r.rest, headers \o r.hdr, steps)

\* one turn of the loop of Decoder.Decode
DecodeStep(d, buf, headers, steps, r) ==
  DecodeParsed(headers, r, Append(steps, Step(d, buf, r)))

\* the for loop of Decoder.Decode
DecodeLoop(d, buf, headers, steps) ==
  IF Len(buf) = 0
  THEN [st |-> "ok", err |-> "", headers |-> headers, d |-> d, steps |-> steps]
  ELSE DecodeStep(d, buf, headers, steps, parseHeaderField(d, buf))

\* Decoder.Decode: the headers of the block, or the error; d is the decoder after
\* the call and steps the representations met, in order
Decode(d, block) == DecodeLoop(d, block, <<>>, <<>>)

(***************************************************************************)
(* The inputs of the model.                                                *)
(***************************************************************************)
\* "a", "b", "c", "1"
StrA == <<97>>
StrB == <<98>>
StrC == <<99>>
Str1 == <<49>>
\* ":method", "GET", "age"
StrMethod == <<58, 109, 101, 116, 104, 111, 100>>
StrGET == <<71, 69, 84>>
StrAge == <<97, 103, 101>>

\* a miss (an entry of 34 octets), a static name hit (36 octets), a full static
\* hit, and two sensitive headers: one that misses, one that matches a static entry
Headers ==
  { Header(StrA, StrB, FALSE), Header(StrAge, Str1, FALSE),
    Header(StrMethod, StrGET, FALSE),
    Header(StrA, StrB, TRUE), Header(StrMethod, StrGET, TRUE) }

\* "c", "accept-charset", "POST", "method:GET"
StrAcceptCharset == <<97, 99, 99, 101, 112, 116, 45, 99, 104, 97, 114, 115, 101, 116>>
StrPOST == <<80, 79, 83, 84>>
StrMethodGET == <<109, 101, 116, 104, 111, 100, 58, 71, 69, 84>>

\* the headers given to the encoder's lookup: a miss, the same name with another
\* value and with no value, full static hits (entries 2 and 3), a static name
\* hit, the static entry 15 whose value is empty, and an empty name with a
\* value that holds ":"
LookupHeaders ==
  { Header(StrA, StrB, FALSE), Header(StrA, StrC, FALSE), Header(StrA, <<>>, FALSE),
    Header(StrMethod, StrGET, FALSE), Header(StrMethod, StrPOST, FALSE),
    Header(StrMethod, StrB, FALSE), Header(StrAcceptCharset, <<>>, FALSE),
    Header(<<>>, StrMethodGET, FALSE) }

HeaderLists == UNION { [1..n -> Headers] : n \in 1..MaxHeaders }

\* max sizes: nothing fits, only the smaller entry fits, either entry fits, both
\* fit, and a size above what was negotiated
Sizes == {0, 34, 36, 70, 100}

\* the sizes the encoder is set to: none above what was negotiated
EncoderSizes == {0, 34, 36, 70}

\* the headers given to the two policies: those of the lookup, and the sensitive
\* ones
PolicyHeaders == LookupHeaders \cup { h \in Headers : h.Sensitive }

InitialSizes == {70}

\* whole representations a peer can put in a block
Representations ==
  { <<128>>,                \* Indexed, index 0
    <<130>>,                \* Indexed, index 2
    <<190>>,                \* Indexed, index 62
    <<191>>,                \* Indexed, index 63
    <<64, 1, 97, 1, 98>>,   \* incremental, name "a", value "b"
    <<126, 1, 99>>,         \* incremental, name of index 62, value "c"
    <<127, 0, 1, 99>>,      \* incremental, name of index 63, value "c"
    <<66, 1, 99>>,          \* incremental, name of index 2 (:method), value "c"
    <<32>>,                 \* size update 0
    <<63, 3>>,              \* size update 34
    <<63, 39>>,             \* size update 70
    <<63, 69>>,             \* size update 100
    <<16, 1, 97, 1, 98>>,   \* never indexed, name "a", value "b"
    <<15, 47, 1, 98>> }     \* not indexed, name of index 62, value "b"

\* representations cut short by the end of the block
CutShort ==
  { <<255>>,                \* Indexed, no octet after the full prefix
    <<63>>,                 \* size update, no octet after the full prefix
    <<64>>,                 \* incremental, nothing where the name length is due
    <<64, 1, 97>> }         \* incremental, nothing where the value length is due

\* representations whose string literal declares more octets than the block holds
StringCutShort ==
  { <<64, 2, 97>>,              \* raw name of 2 octets, 1 given
    <<64, 1, 97, 2, 98>>,       \* raw value of 2 octets, 1 given
    <<64, 130, 31>>,            \* Huffman name of 2 octets, 1 given
    <<64, 1, 97, 130, 31>> }    \* Huffman value of 2 octets, 1 given

\* buffers given to DecodeInteger: whole integers, and integers that end before
\* an octet with the continuation bit clear
IntegerBuffers ==
  { <<10>>, <<31, 154, 10>>, <<127, 0>>, <<255, 128, 1>>,
    <<>>, <<31>>, <<31, 154>>, <<127>>, <<255>>, <<255, 128>> }

\* the prefix lengths the representations use
PrefixLengths == {4, 5, 6, 7}

\* every prefix length an integer can have
AllPrefixLengths == 1..8

\* buffers given to DecodeInteger under the limits: integers of 1 to 4 octets
LimitBuffers ==
  { <<1>>, <<5>>, <<10>>, <<127, 45>>, <<31, 0>>, <<31, 154, 10>>, <<255, 128, 1>>,
    <<255, 128, 128, 1>> }

\* the limits given to SetMaxIntegerValue, SetMaxIntegerEncodedLength and
\* SetMaxStringLiteralLength
IntegerValueLimits == {5, 300}
EncodedLengthLimits == {1, 2, 3}
StringLengthLimits == {2, 3}

\* literals without indexing, name "a": the value is a raw or Huffman coded
\* string of 2 or 3 octets on the wire
LimitBlocks ==
  { <<0, 1, 97, 2, 98, 98>>,          \* raw "bb"
    <<0, 1, 97, 3, 98, 98, 98>>,      \* raw "bbb"
    <<0, 1, 97, 3>>,                  \* raw, 3 octets declared, none given
    <<0, 1, 97, 130, 24, 199>>,       \* Huffman "aaa" in 2 octets
    <<0, 1, 97, 131, 24, 198, 63>>,   \* Huffman "aaaa" in 3 octets
    <<0, 1, 97, 131>> }               \* Huffman, 3 octets declared, none given

\* the numbers given to EncodeInteger: around the end of every prefix, around
\* the lengths of 2, 3, 4, 5 and 6 octets, and the largest
IntegerValues ==
  {0, 1, 10, 42, 1337, 2097151, 2097152, 268435455, 268435456, DefaultMaxIntegerValue}
    \cup UNION { { Pow2(n) - 2, Pow2(n) - 1, Pow2(n), Pow2(n) + 126, Pow2(n) + 127,
                   Pow2(n) + 16382, Pow2(n) + 16383 } : n \in AllPrefixLengths }

\* the strings given to HuffmanEncode: up to MaxSymbols symbols with codes of 5,
\* 5, 6, 7, 8 and 10 bits ("0", "a", "b", ":", "&", "!")
MaxSymbols == 3

HuffmanSymbols == {48, 97, 98, 58, 38, 33}

HuffmanData == UNION { [1..n -> HuffmanSymbols] : n \in 0..MaxSymbols }

\* the strings given to encodeLiteralString: short ones of any octets, and "a"
\* repeated around the length of 127 octets, whose length takes two octets
RawStrings ==
  { <<>>, <<97>>, <<0>>, <<255>>, <<97, 98>>, <<128, 0, 255>>, <<97, 98, 99, 100>> }
    \cup { [i \in 1..n |-> 97] : n \in {126, 127, 128, 300} }

\* the octets that follow a string literal in its buffer
Following == { <<>>, <<130>>, <<0, 255>> }

\* blocks for every first octet: the octet alone, followed by one octet 0 (an
\* empty string, or the end of an integer), and followed by three
DispatchTails == { <<>>, <<0>>, <<0, 0, 0>> }

DispatchBlocks == { <<octet>> \o tail : octet \in 0..255, tail \in DispatchTails }

RECURSIVE Concat(_)
Concat(ss) == IF ss = <<>> THEN <<>> ELSE ss[1] \o Concat(Tail(ss))

\* a block: up to MaxFields representations, the last one possibly cut short
Blocks ==
  { Concat(fs) \o end :
      fs \in UNION { [1..n -> Representations] : n \in 0..(MaxFields - 1) },
      end \in Representations \cup CutShort \cup StringCutShort }

(***************************************************************************)
(* The state machine: one connection.  The caller makes one call at a      *)
(* time; last holds the call just made and what it returned until the      *)
(* caller goes on (Proceed).  The decoder's behaviour depends only on the   *)
(* order of the blocks it is given, so one block in flight is enough.       *)
(***************************************************************************)
NoResult ==
  [st |-> "none", err |-> "", headers |-> <<>>, steps |-> <<>>, number |-> 0,
   rest |-> <<>>, str |-> <<>>]

\* what Decode returned, and the representations it met
DecodeResult(r) ==
  [st |-> r.st, err |-> r.err, headers |-> r.headers, steps |-> r.steps,
   number |-> 0, rest |-> <<>>, str |-> <<>>]

\* what DecodeInteger returned: (number, rest, err), or a panic
IntegerResult(r) ==
  [st |-> r.st, err |-> r.err, headers |-> <<>>, steps |-> <<>>,
   number |-> r.number, rest |-> r.rest, str |-> <<>>]

\* what HuffmanDecode returned: (decoded, err)
HuffmanResult(r) ==
  [st |-> r.st, err |-> r.err, headers |-> <<>>, steps |-> <<>>, number |-> 0,
   rest |-> <<>>, str |-> r.decoded]

\* what readPrefixedLengthString returned: (remainingBuf, str, err), or a panic
StringResult(r) ==
  [st |-> r.st, err |-> r.err, headers |-> <<>>, steps |-> <<>>, number |-> 0,
   rest |-> r.rest, str |-> r.str]

\* no call made, or its results dropped
Idle ==
  [op |-> "none", headers |-> <<>>, huffman |-> FALSE, size |-> 0, block |-> <<>>,
   res |-> NoResult, preEncoder |-> NewEncoder(0), preDecoder |-> NewDecoder(0),
   number |-> 0, str |-> <<>>]

\* a call, its arguments, what it returned, and the two codecs before it
Call(op, headers, huffman, size, block, res) ==
  [op |-> op, headers |-> headers, huffman |-> huffman, size |-> size,
   block |-> block, res |-> res, preEncoder |-> encoder, preDecoder |-> decoder,
   number |-> 0, str |-> <<>>]

\* a call of the integer or string codec: number or str is what was encoded,
\* size the prefix length, block the octets
CodecCall(op, number, str, prefixLength, block, res) ==
  [Call(op, <<>>, FALSE, prefixLength, block, res) EXCEPT !.number = number,
                                                           !.str = str]

\* Decode failed: a panic ended the program, or Decode returned an error and the
\* caller closed the connection (a decoding error is fatal for the connection)
Crashed == last.res.st \in {"err", "panic"}

\* the caller is between two calls
Ready == last.op = "none"

Init ==
  /\ negotiated \in InitialSizes
  /\ encoder = NewEncoder(negotiated)
  /\ decoder = NewDecoder(negotiated)
  /\ wire = <<>>
  /\ last = Idle

\* an encoding call returned r: the block goes to the peer
EncoderReturns(op, headers, huffman, r) ==
  /\ encoder' = r.encoder
  /\ wire' = << [block |-> r.encoded, headers |-> headers] >>
  /\ last' = Call(op, headers, huffman, 0, r.encoded, NoResult)

\* Decode(block) returned r; headers are the headers the block was made from
DecoderReturns(headers, block, r) ==
  /\ decoder' = r.d
  /\ last' = Call("Decode", headers, FALSE, 0, block, DecodeResult(r))

\* encoder.Encode(headers)
EncoderEncode(headers) ==
  /\ Ready
  /\ wire = <<>>
  /\ EncoderReturns("Encode", headers, TRUE, Encode(encoder, headers))
  /\ UNCHANGED <<negotiated, decoder>>

\* encoder.EncodeIndexed(header, huffman)
EncoderEncodeIndexed(header, huffman) ==
  /\ Ready
  /\ wire = <<>>
  /\ EncoderReturns("EncodeIndexed", <<header>>, huffman,
                    EncodeIndexed(encoder, header, huffman))
  /\ UNCHANGED <<negotiated, decoder>>

\* encoder.EncodeNoDynamicIndexing(header, huffman)
EncoderEncodeNoDynamicIndexing(header, huffman) ==
  /\ Ready
  /\ wire = <<>>
  /\ EncoderReturns("EncodeNoDynamicIndexing", <<header>>, huffman,
                    EncodeNoDynamicIndexing(encoder, header, huffman))
  /\ UNCHANGED <<negotiated, decoder>>

\* encoder.SetDynamicTableMaxSize(newMaxSize)
EncoderSetDynamicTableMaxSize(newMaxSize) ==
  /\ Ready
  /\ encoder' = Encoder_SetDynamicTableMaxSize(encoder, newMaxSize)
  /\ last' = Call("Encoder.SetDynamicTableMaxSize", <<>>, FALSE, newMaxSize, <<>>,
                  NoResult)
  /\ UNCHANGED <<negotiated, decoder, wire>>

\* decoder.Decode(block), of the block the encoder returned
DecoderDecode ==
  /\ Ready
  /\ wire # <<>>
  /\ DecoderReturns(wire[1].headers, wire[1].block, Decode(decoder, wire[1].block))
  /\ wire' = <<>>
  /\ UNCHANGED <<negotiated, encoder>>

\* decoder.Decode(block), of a block some peer made
DecoderDecodeBlock(block) ==
  /\ Ready
  /\ DecoderReturns(<<>>, block, Decode(decoder, block))
  /\ UNCHANGED <<negotiated, encoder, wire>>

\* decoder.DecodeInteger(buf, prefixLength)
DecoderDecodeInteger(buf, prefixLength) ==
  /\ Ready
  /\ last' = Call("DecodeInteger", <<>>, FALSE, prefixLength, buf,
                  IntegerResult(DecodeInteger(decoder, buf, prefixLength)))
  /\ UNCHANGED <<negotiated, encoder, decoder, wire>>

\* encoder.EncodeInteger(number, prefixLength)
EncoderEncodeInteger(number, prefixLength) ==
  /\ Ready
  /\ last' = CodecCall("EncodeInteger", number, <<>>, prefixLength,
                       encodeInteger(number, prefixLength), NoResult)
  /\ UNCHANGED <<negotiated, encoder, decoder, wire>>

\* decoder.DecodeInteger(buf, prefixLength), of the octets EncodeInteger returned
DecoderDecodeEncodedInteger ==
  /\ last.op = "EncodeInteger"
  /\ last' = CodecCall("DecodeEncodedInteger", last.number, <<>>, last.size, last.block,
                       IntegerResult(DecodeInteger(decoder, last.block, last.size)))
  /\ UNCHANGED <<negotiated, encoder, decoder, wire>>

\* HuffmanEncode(data)
CallHuffmanEncode(data) ==
  /\ Ready
  /\ last' = CodecCall("HuffmanEncode", 0, data, 0, HuffmanEncode(data), NoResult)
  /\ UNCHANGED <<negotiated, encoder, decoder, wire>>

\* HuffmanDecode(encoded), of the octets HuffmanEncode returned
CallHuffmanDecode ==
  /\ last.op = "HuffmanEncode"
  /\ last' = CodecCall("HuffmanDecode", 0, last.str, 0, last.block,
                       HuffmanResult(HuffmanDecode(last.block)))
  /\ UNCHANGED <<negotiated, encoder, decoder, wire>>

\* encodeLiteralString(str, 7, false), put in a buffer before other octets
CallEncodeLiteralString(str, following) ==
  /\ Ready
  /\ last' = CodecCall("encodeLiteralString", 0, str, 7,
                       encodeLiteralString(str, 7, FALSE) \o following, NoResult)
  /\ UNCHANGED <<negotiated, encoder, decoder, wire>>

\* decoder.readPrefixedLengthString(buf, 7), of the buffer that holds the literal
DecoderReadPrefixedLengthString ==
  /\ last.op = "encodeLiteralString"
  /\ last' = CodecCall("readPrefixedLengthString", 0, last.str, last.size, last.block,
                       StringResult(readPrefixedLengthString(decoder, last.block,
                                                             last.size)))
  /\ UNCHANGED <<negotiated, encoder, decoder, wire>>

\* decoder.SetMaxIntegerValue(value)
DecoderSetMaxIntegerValue(value) ==
  /\ Ready
  /\ decoder' = [decoder EXCEPT !.integerValueMax = value]
  /\ last' = Call("SetMaxIntegerValue", <<>>, FALSE, value, <<>>, NoResult)
  /\ UNCHANGED <<negotiated, encoder, wire>>

\* decoder.SetMaxIntegerEncodedLength(length)
DecoderSetMaxIntegerEncodedLength(length) ==
  /\ Ready
  /\ decoder' = [decoder EXCEPT !.integerEncodedLengthMax = length]
  /\ last' = Call("SetMaxIntegerEncodedLength", <<>>, FALSE, length, <<>>, NoResult)
  /\ UNCHANGED <<negotiated, encoder, wire>>

\* decoder.SetMaxStringLiteralLength(length)
DecoderSetMaxStringLiteralLength(length) ==
  /\ Ready
  /\ decoder' = [decoder EXCEPT !.stringLiteralLengthMax = length]
  /\ last' = Call("SetMaxStringLiteralLength", <<>>, FALSE, length, <<>>, NoResult)
  /\ UNCHANGED <<negotiated, encoder, wire>>

\* decoder.SetDynamicTableMaxSize(newMaxSize)
DecoderSetDynamicTableMaxSize(newMaxSize) ==
  /\ Ready
  /\ decoder' = Decoder_SetDynamicTableMaxSize(decoder, newMaxSize)
  /\ last' = Call("Decoder.SetDynamicTableMaxSize", <<>>, FALSE, newMaxSize, <<>>,
                  NoResult)
  /\ UNCHANGED <<negotiated, encoder, wire>>

\* the caller drops the results of the call and goes on, unless Decode failed
Proceed ==
  /\ ~Ready
  /\ ~Crashed
  /\ last' = Idle
  /\ UNCHANGED <<negotiated, encoder, decoder, wire>>

\* an encoder and a decoder of one connection: the decoder gets the encoder's blocks
Next ==
  \/ \E headers \in HeaderLists : EncoderEncode(headers)
  \/ \E header \in Headers, huffman \in BOOLEAN : EncoderEncodeIndexed(header, huffman)
  \/ \E header \in Headers, huffman \in BOOLEAN :
       EncoderEncodeNoDynamicIndexing(header, huffman)
  \/ \E newMaxSize \in EncoderSizes : EncoderSetDynamicTableMaxSize(newMaxSize)
  \/ DecoderDecode
  \/ Proceed

Spec == Init /\ [][Next]_vars

\* a decoder given the blocks of any peer
NextWire ==
  \/ \E block \in Blocks : DecoderDecodeBlock(block)
  \/ \E buf \in IntegerBuffers, prefixLength \in PrefixLengths :
       DecoderDecodeInteger(buf, prefixLength)
  \/ Proceed

SpecWire == Init /\ [][NextWire]_vars

\* the same, the application resizing the decoder's table as well
NextDecoder ==
  \/ NextWire
  \/ \E newMaxSize \in Sizes : DecoderSetDynamicTableMaxSize(newMaxSize)

SpecDecoder == Init /\ [][NextDecoder]_vars

\* the connection, the application resizing the decoder's table as well
NextResize ==
  \/ Next
  \/ \E newMaxSize \in Sizes : DecoderSetDynamicTableMaxSize(newMaxSize)

SpecResize == Init /\ [][NextResize]_vars

\* a decoder whose limits the application sets
NextLimits ==
  \/ \E value \in IntegerValueLimits : DecoderSetMaxIntegerValue(value)
  \/ \E length \in EncodedLengthLimits : DecoderSetMaxIntegerEncodedLength(length)
  \/ \E length \in StringLengthLimits : DecoderSetMaxStringLiteralLength(length)
  \/ \E buf \in LimitBuffers, prefixLength \in AllPrefixLengths :
       DecoderDecodeInteger(buf, prefixLength)
  \/ \E block \in LimitBlocks : DecoderDecodeBlock(block)
  \/ Proceed

SpecLimits == Init /\ [][NextLimits]_vars

\* the integer, Huffman and string codecs: what one side encodes the other decodes
NextCodec ==
  \/ \E number \in IntegerValues, prefixLength \in AllPrefixLengths :
       EncoderEncodeInteger(number, prefixLength)
  \/ DecoderDecodeEncodedInteger
  \/ \E data \in HuffmanData : CallHuffmanEncode(data)
  \/ CallHuffmanDecode
  \/ \E str \in RawStrings, following \in Following :
       CallEncodeLiteralString(str, following)
  \/ DecoderReadPrefixedLengthString
  \/ \E length \in StringLengthLimits : DecoderSetMaxStringLiteralLength(length)
  \/ Proceed

SpecCodec == Init /\ [][NextCodec]_vars

\* the connection, the encoder given the headers that exercise its lookup
NextLookup ==
  \/ \E header \in LookupHeaders, huffman \in BOOLEAN :
       EncoderEncodeIndexed(header, huffman)
  \/ \E header \in LookupHeaders, huffman \in BOOLEAN :
       EncoderEncodeNoDynamicIndexing(header, huffman)
  \/ DecoderDecode
  \/ Proceed

SpecLookup == Init /\ [][NextLookup]_vars

\* the connection, one header at a time under either policy, the application
\* resizing the encoder's table
NextPolicy ==
  \/ \E header \in PolicyHeaders, huffman \in BOOLEAN :
       EncoderEncodeIndexed(header, huffman)
  \/ \E header \in PolicyHeaders, huffman \in BOOLEAN :
       EncoderEncodeNoDynamicIndexing(header, huffman)
  \/ \E newMaxSize \in EncoderSizes : EncoderSetDynamicTableMaxSize(newMaxSize)
  \/ DecoderDecode
  \/ Proceed

SpecPolicy == Init /\ [][NextPolicy]_vars

\* a new decoder given its first block
NextDispatch == \E block \in DispatchBlocks : DecoderDecodeBlock(block)

SpecDispatch == Init /\ [][NextDispatch]_vars

(***************************************************************************)
(* Properties.                                                             *)
(***************************************************************************)
\* the (name, value) pairs of a header list
NameValues(headers) ==
  [i \in 1..Len(headers) |-> <<headers[i].Name, headers[i].Value>>]

RECURSIVE TableSize(_)
\* the sum of 32 + len(name) + len(value) over the entries of a table
TableSize(table) ==
  IF table = <<>> THEN 0
  ELSE EntrySize(table[1].Name, table[1].Value) + TableSize(Tail(table))

\* the call just made was an encoding call
Encoded == last.op \in {"Encode", "EncodeIndexed", "EncodeNoDynamicIndexing"}

\* a block without the size update it starts with, if it starts with one
AfterSizeUpdate(block) ==
  IF block # <<>> /\ RepresentationOf(block[1]) = "DynamicSizeUpdate"
  THEN decodeInteger(block, 5, DefaultMaxIntegerValue,
                     DefaultMaxIntegerEncodedLength).rest
  ELSE block

\* the steps of the last Decode that are header fields, not size updates
FieldSteps == SelectSeq(last.res.steps, LAMBDA s : s.kind # "DynamicSizeUpdate")

\* C1: every block the encoder returned decodes without error to exactly the
\* headers that were encoded, in order (encoder and decoder made with one max size,
\* the encoder's sizes never above it)
C1_RoundTrip ==
  last.op = "Decode" =>
    /\ last.res.st = "ok"
    /\ NameValues(last.res.headers) = NameValues(last.headers)

\* C2: once every block and every resize of the encoder has reached the decoder
\* and no Decode failed, the two dynamic tables are equal entry for entry
C2_TableSynchrony ==
  (wire = <<>> /\ ~encoder.pendingDynamicTableSizeUpdate /\ ~Crashed) =>
    decoder.dynamicTable = encoder.dynamicTable

\* C3: on the encoder and on the decoder the current size never exceeds the max
\* size and is the sum of the sizes of the entries in the table
C3_EvictionInvariant ==
  /\ encoder.dynamicTableSizeCurrent <= encoder.dynamicTableSizeMax
  /\ encoder.dynamicTableSizeCurrent = TableSize(encoder.dynamicTable)
  /\ decoder.dynamicTableSizeCurrent <= decoder.dynamicTableSizeMax
  /\ decoder.dynamicTableSizeCurrent = TableSize(decoder.dynamicTable)

\* an insert evicted an older entry to make room, on the encoder and then, the
\* block decoded, on the decoder
C3_Witness ==
  /\ last.op = "Decode"
  /\ last.res.st = "ok"
  /\ Len(last.preDecoder.dynamicTable) = 1
  /\ Len(decoder.dynamicTable) = 1
  /\ decoder.dynamicTable # last.preDecoder.dynamicTable
  /\ encoder.dynamicTable = decoder.dynamicTable

\* the encoder inserted the header of the EncodeIndexed call just made
EncoderInserted ==
  /\ last.op = "EncodeIndexed"
  /\ RepresentationOf(AfterSizeUpdate(last.block)[1]) = "IncrementalIndex"

\* the last representation of the block just decoded was an incremental-indexing
\* literal: the decoder's last act was to insert its header
DecoderInserted ==
  /\ last.op = "Decode"
  /\ last.res.st = "ok"
  /\ last.res.steps[Len(last.res.steps)].kind = "IncrementalIndex"

\* C4: an insert of an entry bigger than the table's max size leaves the table
\* empty, with current size 0, whatever it held
C4_OversizedInsert ==
  /\ (EncoderInserted
      /\ EntrySize(last.headers[1].Name, last.headers[1].Value)
           > encoder.dynamicTableSizeMax)
       => encoder.dynamicTable = <<>> /\ encoder.dynamicTableSizeCurrent = 0
  /\ (DecoderInserted
      /\ LET h == last.res.headers[Len(last.res.headers)]
         IN  EntrySize(h.Name, h.Value) > decoder.dynamicTableSizeMax)
       => decoder.dynamicTable = <<>> /\ decoder.dynamicTableSizeCurrent = 0

\* the decoder held an entry and inserted one bigger than its max size
C4_Witness ==
  /\ DecoderInserted
  /\ LET h == last.res.headers[Len(last.res.headers)]
     IN  EntrySize(h.Name, h.Value) > decoder.dynamicTableSizeMax
  /\ last.res.steps[Len(last.res.steps)].entries > 0
  /\ Len(last.res.steps) = 1

\* C5: a sensitive header is encoded as a never-indexed literal, after the pending
\* size update if there is one, and encoding sensitive headers leaves the encoder's
\* dynamic table and current size as they were; the decoder sees a never-indexed
\* literal exactly for the sensitive headers
C5_SensitiveNeverIndexed ==
  /\ (Encoded /\ \A i \in 1..Len(last.headers) : last.headers[i].Sensitive) =>
       /\ RepresentationOf(AfterSizeUpdate(last.block)[1]) = "NeverIndexed"
       /\ encoder.dynamicTable = last.preEncoder.dynamicTable
       /\ encoder.dynamicTableSizeCurrent = last.preEncoder.dynamicTableSizeCurrent
  /\ (last.op = "Decode" /\ last.res.st = "ok"
        /\ Len(FieldSteps) = Len(last.headers)) =>
       \A i \in 1..Len(last.headers) :
         last.headers[i].Sensitive => FieldSteps[i].kind = "NeverIndexed"

\* a sensitive header whose name and value are an entry of the encoder's dynamic
\* table was encoded by EncodeIndexed, a size update pending
C5_Witness ==
  /\ last.op = "EncodeIndexed"
  /\ last.headers[1].Sensitive
  /\ last.preEncoder.pendingDynamicTableSizeUpdate
  /\ \E i \in 1..Len(last.preEncoder.dynamicTable) :
       /\ last.preEncoder.dynamicTable[i].Name = last.headers[1].Name
       /\ last.preEncoder.dynamicTable[i].Value = last.headers[1].Value

\* the size updates Decode met, with their place in the block
SizeUpdateSteps ==
  { i \in 1..Len(last.res.steps) :
      /\ last.res.steps[i].kind = "DynamicSizeUpdate"
      /\ last.res.steps[i].index # -1 }

\* C6: the decoder rejects a size update exactly when its value is above the max
\* size the decoder was made with, whatever earlier size updates set, and applies
\* it otherwise
C6_SizeUpdateBound ==
  last.op = "Decode" =>
    \A i \in SizeUpdateSteps :
      /\ last.res.steps[i].st = "err" <=> last.res.steps[i].index > negotiated
      /\ (last.res.steps[i].st = "ok" /\ i = Len(last.res.steps)) =>
           decoder.dynamicTableSizeMax = last.res.steps[i].index

\* C7: a size update that comes after a header field of the same block makes
\* Decode return an error
C7_SizeUpdateOrdering ==
  last.op = "Decode" =>
    \A i \in SizeUpdateSteps :
      (\E j \in 1..(i - 1) : last.res.steps[j].kind # "DynamicSizeUpdate") =>
        last.res.steps[i].st = "err"

\* C8: after Encoder.SetDynamicTableMaxSize the next block starts with the size
\* update that carries the encoder's max size, once, the field's representation
\* after it, and the flag is cleared; a block encoded with no update pending
\* starts with no size update
C8_PendingSizeUpdate ==
  Encoded =>
    /\ ~encoder.pendingDynamicTableSizeUpdate
    /\ encoder.dynamicTableSizeMax = last.preEncoder.dynamicTableSizeMax
    /\ IF last.preEncoder.pendingDynamicTableSizeUpdate
       THEN LET u == OrFirst(encodeInteger(encoder.dynamicTableSizeMax, 5),
                             headerFieldDynamicSizeUpdate)
            IN  /\ Take(last.block, Len(u)) = u
                /\ Len(last.block) > Len(u)
                /\ RepresentationOf(last.block[Len(u) + 1]) # "DynamicSizeUpdate"
       ELSE RepresentationOf(last.block[1]) # "DynamicSizeUpdate"

\* a list of two headers was encoded after two resizes in a row
C8_Witness ==
  /\ last.op = "Encode"
  /\ Len(last.headers) = 2
  /\ last.preEncoder.pendingDynamicTableSizeUpdate
  /\ last.preEncoder.dynamicTableSizeMax = 34
  /\ last.preEncoder.dynamicTableSizeCurrent = 0
  /\ Take(last.block, 2) = <<63, 3>>

\* C9: an Indexed representation with index 0, or a representation whose index is
\* above 61 + the entries the dynamic table holds at that point of the block,
\* makes Decode return an error, with no headers
C9_InvalidIndex ==
  last.op = "Decode" =>
    \A i \in 1..Len(last.res.steps) :
      LET s == last.res.steps[i]
      IN  (/\ s.kind # "DynamicSizeUpdate"
           /\ s.index # -1
           /\ \/ s.kind = "Indexed" /\ s.index = 0
              \/ s.index > Len(staticTable) + s.entries)
            => s.st = "err" /\ last.res.headers = <<>>

\* the buffer ends before an octet with the continuation bit clear
Truncated(buf, prefixLength) ==
  \/ buf = <<>>
  \/ /\ buf[1] % Pow2(prefixLength) = Pow2(prefixLength) - 1
     /\ \A i \in 2..Len(buf) : buf[i] >= 128

\* the block ends inside an integer of its last representation, the ones before
\* it decoded
IntegerCutShort(block) ==
  \E end \in CutShort :
    /\ Len(block) >= Len(end)
    /\ Drop(block, Len(block) - Len(end)) = end
    /\ Decode(last.preDecoder, Take(block, Len(block) - Len(end))).st = "ok"

\* C10: DecodeInteger, called directly or by Decode, returns an error when the
\* buffer ends before the integer does
C10_TruncatedInteger ==
  /\ (last.op = "DecodeInteger" /\ Truncated(last.block, last.size))
       => last.res.st = "err"
  /\ (last.op = "Decode" /\ IntegerCutShort(last.block)) => last.res.st = "err"

\* the block ends inside a string literal of its last representation, the ones
\* before it decoded
StringLiteralCutShort(block) ==
  \E end \in StringCutShort :
    /\ Len(block) >= Len(end)
    /\ Drop(block, Len(block) - Len(end)) = end
    /\ Decode(last.preDecoder, Take(block, Len(block) - Len(end))).st = "ok"

\* C11: a string literal, raw or Huffman coded, that declares more octets than
\* the block holds makes Decode return an error, with no headers
C11_TruncatedString ==
  (last.op = "Decode" /\ StringLiteralCutShort(last.block)) =>
    last.res.st = "err" /\ last.res.headers = <<>>

\* C12: DecodeInteger never returns a number above the limit that
\* SetMaxIntegerValue set, whatever the prefix length
C12_IntegerValueLimit ==
  (last.op = "DecodeInteger" /\ last.res.st = "ok") =>
    last.res.number <= decoder.integerValueMax

RECURSIVE Continuations(_)
\* the octets up to the first one with the continuation bit clear
Continuations(buf) ==
  IF buf = <<>> THEN 0
  ELSE IF buf[1] < 128 THEN 1
  ELSE 1 + Continuations(Tail(buf))

\* the octets the integer at the head of buf occupies, prefix octet included
EncodedLength(buf, prefixLength) ==
  IF buf[1] % Pow2(prefixLength) # Pow2(prefixLength) - 1 THEN 1
  ELSE 1 + Continuations(Tail(buf))

\* C13: DecodeInteger returns ErrIntegerEncodedLengthTooLong for an integer of
\* more octets than the limit SetMaxIntegerEncodedLength set, and reads no more
\* octets than the limit
C13_EncodedLengthLimit ==
  (last.op = "DecodeInteger" /\ ~Truncated(last.block, last.size)) =>
    /\ EncodedLength(last.block, last.size) > decoder.integerEncodedLengthMax =>
         /\ last.res.st = "err"
         /\ last.res.err = ErrIntegerEncodedLengthTooLong
    /\ last.res.st = "ok" =>
         Len(last.block) - Len(last.res.rest) <= decoder.integerEncodedLengthMax

\* the length field of the value of a literal of LimitBlocks, and its payload
WireLength(block) == block[4] % huffmanEncoded

Payload(block) == Drop(block, 4)

\* C14: a string literal whose length field exceeds the limit set with
\* SetMaxStringLiteralLength is rejected with ErrStringLiteralLengthTooLong,
\* whether or not its payload is there; one within the limit is accepted,
\* whatever the length of the decoded string
C14_StringLengthLimit ==
  (last.op = "Decode" /\ last.block \in LimitBlocks) =>
    /\ WireLength(last.block) > last.preDecoder.stringLiteralLengthMax =>
         /\ last.res.st = "err"
         /\ last.res.err = ErrStringLiteralLengthTooLong
         /\ last.res.headers = <<>>
    /\ ( /\ WireLength(last.block) <= last.preDecoder.stringLiteralLengthMax
         /\ Len(Payload(last.block)) = WireLength(last.block) ) =>
         /\ last.res.st = "ok"
         /\ Len(last.res.headers) = 1

\* a Huffman coded value of 2 octets that decodes to 3 octets was accepted
\* under a limit of 2
C14_Witness ==
  /\ last.op = "Decode"
  /\ last.block = <<0, 1, 97, 130, 24, 199>>
  /\ last.preDecoder.stringLiteralLengthMax = 2
  /\ last.res.st = "ok"
  /\ Len(last.res.headers) = 1
  /\ last.res.headers[1].Value = <<97, 97, 97>>

\* C15: a Decode that returns an error leaves the decoder's dynamic table, its
\* current size and its maximum size as they were before the call
C15_AtomicFailure ==
  (last.op = "Decode" /\ last.res.st = "err") =>
    /\ decoder.dynamicTable = last.preDecoder.dynamicTable
    /\ decoder.dynamicTableSizeCurrent = last.preDecoder.dynamicTableSizeCurrent
    /\ decoder.dynamicTableSizeMax = last.preDecoder.dynamicTableSizeMax

\* C16: with the default limits, DecodeInteger of the octets of
\* EncodeInteger(v, N) returns no error, an empty remaining buffer and v, for v
\* up to the default largest value and N in 1..8
C16_IntegerRoundTrip ==
  last.op = "DecodeEncodedInteger" =>
    /\ last.res.st = "ok"
    /\ last.res.rest = <<>>
    /\ last.res.number = last.number

\* the largest value made the round trip under a prefix of 1 bit, in 6 octets
C16_Witness ==
  /\ last.op = "DecodeEncodedInteger"
  /\ last.number = DefaultMaxIntegerValue
  /\ last.size = 1
  /\ Len(last.block) = 6
  /\ last.res.number = DefaultMaxIntegerValue

\* the padding bits HuffmanEncode added to the codes of data
PaddingBits(data) == (8 - (Len(HuffmanBits(data)) % 8)) % 8

\* C17: HuffmanDecode of the octets of HuffmanEncode(s) returns no error and s,
\* whatever the number of padding bits
C17_HuffmanRoundTrip ==
  last.op = "HuffmanDecode" =>
    /\ last.res.st = "ok"
    /\ last.res.str = last.str

\* a string whose codes end 7 bits before the end of the last octet made the
\* round trip
C17_Witness ==
  /\ last.op = "HuffmanDecode"
  /\ PaddingBits(last.str) = 7
  /\ Len(last.str) = 2
  /\ last.res.str = last.str

\* C18: readPrefixedLengthString(buf, 7) of a buffer that starts with
\* encodeLiteralString(s, 7, false), s no longer than the limit, returns no
\* error, s, and the octets that follow the literal (none when none follow)
C18_RawStringRoundTrip ==
  (last.op = "readPrefixedLengthString"
     /\ Len(last.str) <= last.preDecoder.stringLiteralLengthMax) =>
    /\ last.res.st = "ok"
    /\ last.res.str = last.str
    /\ last.res.rest \in Following
    /\ last.block = encodeLiteralString(last.str, 7, FALSE) \o last.res.rest

\* a string of 300 octets, its length in three octets, was read back with the
\* two octets that followed it
C18_Witness ==
  /\ last.op = "readPrefixedLengthString"
  /\ Len(last.str) = 300
  /\ Take(last.block, 3) = <<127, 173, 1>>
  /\ last.res.str = last.str
  /\ last.res.rest = <<0, 255>>

\* C20 as stated: EncodeInteger(10, 5) returns the single octet 0x8A
C20_Stated ==
  (last.op = "EncodeInteger" /\ last.number = 10 /\ last.size = 5) =>
    last.block = <<138>>

\* C20: EncodeInteger(10, 5) returns the single octet 0x0A
C20_EncodeTen ==
  (last.op = "EncodeInteger" /\ last.number = 10 /\ last.size = 5) =>
    last.block = <<10>>

\* EncodeInteger(10, 5) was called and returned one octet
C20_Witness ==
  /\ last.op = "EncodeInteger"
  /\ last.number = 10
  /\ last.size = 5
  /\ Len(last.block) = 1

\* the (name, value) pairs parseHeaderField returned at the header field steps
\* of the last Decode, in the order of the block
FieldNameValues ==
  [i \in 1..Len(FieldSteps) |->
     <<FieldSteps[i].hdr[1].Name, FieldSteps[i].hdr[1].Value>>]

\* C19: a successful Decode returns one header per header field representation
\* of the block, in the order of the block, and none for a size update; a
\* header is Sensitive exactly when its representation is never indexed
C19_DecodeOutput ==
  (last.op = "Decode" /\ last.res.st = "ok") =>
    /\ Len(last.res.headers) = Len(FieldSteps)
    /\ NameValues(last.res.headers) = FieldNameValues
    /\ \A i \in 1..Len(FieldSteps) :
         last.res.headers[i].Sensitive <=> FieldSteps[i].kind = "NeverIndexed"

\* a never indexed literal (a, b) followed by the indexed field 2 (:method, GET)
\* gave the two headers in that order, the first one sensitive
C19_Witness ==
  /\ last.op = "Decode"
  /\ last.block = <<16, 1, 97, 1, 98, 130>>
  /\ last.res.st = "ok"
  /\ NameValues(last.res.headers) = << <<StrA, StrB>>, <<StrMethod, StrGET>> >>
  /\ last.res.headers[1].Sensitive
  /\ ~last.res.headers[2].Sensitive

\* the joint table of an encoder: the static entries, then the dynamic ones
JointTable(e) ==
  [i \in 1..(Len(staticTable) + Len(e.dynamicTable)) |->
     IF i <= Len(staticTable)
     THEN [Name |-> staticTable[i][1], Value |-> staticTable[i][2]]
     ELSE [Name  |-> e.dynamicTable[i - Len(staticTable)].Name,
           Value |-> e.dynamicTable[i - Len(staticTable)].Value]]

\* the joint indices whose entry has the name and the value of header
FullMatches(table, header) ==
  { i \in DOMAIN table :
      table[i].Name = header.Name /\ table[i].Value = header.Value }

\* the joint indices whose entry has the name of header
NameMatches(table, header) == { i \in DOMAIN table : table[i].Name = header.Name }

\* the call just made encoded one header that is not sensitive
EncodedOne ==
  /\ last.op \in {"EncodeIndexed", "EncodeNoDynamicIndexing"}
  /\ ~last.headers[1].Sensitive

\* C21: when an entry of the joint table has the name and the value of the
\* header, the empty value included, findHeaderInTable returns the smallest such
\* index with true, and the encoder emits the Indexed representation of that
\* index and nothing else for the field
C21_FullMatch ==
  (EncodedOne /\ FullMatches(JointTable(last.preEncoder), last.headers[1]) # {}) =>
    /\ findHeaderInTable(last.preEncoder, last.headers[1].Name, last.headers[1].Value)
         = << Least(FullMatches(JointTable(last.preEncoder), last.headers[1])), TRUE >>
    /\ AfterSizeUpdate(last.block)
         = OrFirst(encodeInteger(
                     Least(FullMatches(JointTable(last.preEncoder), last.headers[1])),
                     7), headerFieldIndexed)

\* the literal of a value whose name is entry index of the joint table: the
\* index under the prefix of the representation, then the value
NameIndexedLiteral(op, index, value, huffman) ==
  (IF op = "EncodeIndexed"
   THEN OrFirst(encodeInteger(index, 6), headerFieldLiteralIncrementalIndex)
   ELSE OrFirst(encodeInteger(index, 4), headerFieldLiteralNotIndexed))
    \o encodeLiteralString(value, 7, huffman)

\* C22: when no entry of the joint table has the name and the value of the
\* header but one, static or dynamic, has its name, findHeaderInTable returns the
\* smallest such index with false and the encoder emits a literal with that
\* name index and no name literal; findHeaderInTable returns -1 only when no
\* entry has the name
C22_NameMatch ==
  EncodedOne =>
    /\ ( /\ FullMatches(JointTable(last.preEncoder), last.headers[1]) = {}
         /\ NameMatches(JointTable(last.preEncoder), last.headers[1]) # {} ) =>
         /\ findHeaderInTable(last.preEncoder, last.headers[1].Name,
                              last.headers[1].Value)
              = << Least(NameMatches(JointTable(last.preEncoder), last.headers[1])),
                   FALSE >>
         /\ AfterSizeUpdate(last.block)
              = NameIndexedLiteral(last.op,
                  Least(NameMatches(JointTable(last.preEncoder), last.headers[1])),
                  last.headers[1].Value, last.huffman)
    /\ findHeaderInTable(last.preEncoder, last.headers[1].Name,
                         last.headers[1].Value)[1] = -1
         => NameMatches(JointTable(last.preEncoder), last.headers[1]) = {}

\* the index of the Indexed representation a block holds after its size update
EmittedIndex(block) ==
  decodeInteger(AfterSizeUpdate(block), 7, DefaultMaxIntegerValue,
                DefaultMaxIntegerEncodedLength).number

\* the encoder emitted an Indexed representation for one header
EmittedIndexed ==
  /\ EncodedOne
  /\ RepresentationOf(AfterSizeUpdate(last.block)[1]) = "Indexed"

\* C28: when the encoder emits an Indexed representation with index i for a
\* header, entry i of its joint table has exactly the name and the value of the
\* header, whatever the strings are
C28_IndexedExact ==
  EmittedIndexed =>
    EmittedIndex(last.block)
      \in FullMatches(JointTable(last.preEncoder), last.headers[1])

RECURSIVE Fitting(_, _)
\* the longest prefix of a table whose entries take no more than room octets
Fitting(table, room) ==
  IF table = <<>> THEN <<>>
  ELSE IF EntrySize(table[1].Name, table[1].Value) > room THEN <<>>
  ELSE << table[1] >>
         \o Fitting(Tail(table), room - EntrySize(table[1].Name, table[1].Value))

\* a table of max octets after (name, value) was inserted at its head
WithEntry(table, max, name, value) ==
  IF EntrySize(name, value) > max THEN <<>>
  ELSE << [Name |-> name, Value |-> value] >>
         \o Fitting(table, max - EntrySize(name, value))

\* Decode parsed a block of one representation of the given kinds
DecodedOne(kinds) ==
  /\ last.op = "Decode"
  /\ last.res.st = "ok"
  /\ Len(last.res.steps) = 1
  /\ last.res.steps[1].kind \in kinds

\* C23: a literal with incremental indexing inserts the header it emits, its
\* name read from the table as it was before, at the head of the decoder's
\* dynamic table, evicting from the tail; an Indexed field and a literal without
\* indexing or never indexed leave the table, its size and its max size alone
C23_TableEffect ==
  /\ DecodedOne({"IncrementalIndex"}) =>
       /\ last.res.steps[1].index # 0 =>
            last.res.headers[1].Name
              = JointTable(last.preDecoder)[last.res.steps[1].index].Name
       /\ decoder.dynamicTable
            = WithEntry(last.preDecoder.dynamicTable,
                        last.preDecoder.dynamicTableSizeMax,
                        last.res.headers[1].Name, last.res.headers[1].Value)
       /\ decoder.dynamicTableSizeCurrent = TableSize(decoder.dynamicTable)
       /\ decoder.dynamicTableSizeMax = last.preDecoder.dynamicTableSizeMax
  /\ DecodedOne({"Indexed", "NotIndexed", "NeverIndexed"}) =>
       /\ decoder.dynamicTable = last.preDecoder.dynamicTable
       /\ decoder.dynamicTableSizeCurrent = last.preDecoder.dynamicTableSizeCurrent
       /\ decoder.dynamicTableSizeMax = last.preDecoder.dynamicTableSizeMax

\* the decoder held (a, b), its max size 36, and read the literal with the name
\* of index 62 and the value "c": (a, c) took the place of (a, b)
C23_Witness ==
  /\ DecodedOne({"IncrementalIndex"})
  /\ last.res.steps[1].index = 62
  /\ last.preDecoder.dynamicTableSizeMax = 36
  /\ last.preDecoder.dynamicTable = << [Name |-> StrA, Value |-> StrB] >>
  /\ decoder.dynamicTable = << [Name |-> StrA, Value |-> StrC] >>

\* a sequence, last element first
Reverse(seq) == [i \in 1..Len(seq) |-> seq[Len(seq) + 1 - i]]

\* the (name, value) entries of a sequence of headers
EntriesOf(headers) ==
  [i \in 1..Len(headers) |-> [Name |-> headers[i].Name, Value |-> headers[i].Value]]

\* the sequences made of some of the elements of seq, in the order of seq
SubSeqs(seq) ==
  { SelectSeq([i \in 1..Len(seq) |-> <<i, seq[i]>>], LAMBDA p : p[1] \in keep)
      : keep \in SUBSET (1..Len(seq)) }

\* new is old after the entries inserted were put at its head one after the
\* other, evictions taking the oldest entry each time: the newest of the
\* entries inserted, newest first, then the newest of the old entries, and no
\* old entry when an inserted one is gone
FifoAfter(old, new, inserted) ==
  \E m \in 0..Len(inserted), j \in 0..Len(old) :
    /\ new = Take(Reverse(inserted), m) \o Take(old, j)
    /\ j > 0 => m = Len(inserted)

\* the headers the steps of the last Decode inserted, in the order of the block
DecoderInsertions ==
  EntriesOf([i \in 1..Len(SelectSeq(last.res.steps,
                           LAMBDA st : st.kind = "IncrementalIndex" /\ st.st = "ok"))
              |-> SelectSeq(last.res.steps,
                    LAMBDA st : st.kind = "IncrementalIndex" /\ st.st = "ok")[i].hdr[1]])

\* C24: every call leaves in a dynamic table the entries it inserted, newest
\* first, followed by the newest entries of the table before the call: inserts go
\* to the head, evictions take the oldest entry, and no entry goes while an older
\* one stays
C24_FifoOrder ==
  /\ Encoded =>
       \E sub \in SubSeqs(last.headers) :
         FifoAfter(last.preEncoder.dynamicTable, encoder.dynamicTable,
                   EntriesOf([i \in 1..Len(sub) |-> sub[i][2]]))
  /\ last.op = "Decode" =>
       FifoAfter(last.preDecoder.dynamicTable, decoder.dynamicTable, DecoderInsertions)
  /\ last.op = "Encoder.SetDynamicTableMaxSize" =>
       FifoAfter(last.preEncoder.dynamicTable, encoder.dynamicTable, <<>>)
  /\ last.op = "Decoder.SetDynamicTableMaxSize" =>
       FifoAfter(last.preDecoder.dynamicTable, decoder.dynamicTable, <<>>)

\* the decoder held two different entries and a block with one insert evicted
\* the older one only
C24_Witness ==
  /\ last.op = "Decode"
  /\ Len(last.preDecoder.dynamicTable) = 2
  /\ last.preDecoder.dynamicTable[1] # last.preDecoder.dynamicTable[2]
  /\ Len(DecoderInsertions) = 1
  /\ decoder.dynamicTable = DecoderInsertions \o << last.preDecoder.dynamicTable[1] >>

\* codec c is codec pre resized to n: the max size is n and the table is the
\* longest prefix of the table of pre that takes no more than n octets
ResizedTo(pre, c, n) ==
  /\ c.dynamicTableSizeMax = n
  /\ c.dynamicTable = Fitting(pre.dynamicTable, n)
  /\ c.dynamicTableSizeCurrent = TableSize(c.dynamicTable)

\* Decode accepted a block made of a size update and then fields that insert
\* nothing
DecodedSizeUpdate ==
  /\ last.op = "Decode"
  /\ last.res.st = "ok"
  /\ Len(last.res.steps) >= 1
  /\ last.res.steps[1].kind = "DynamicSizeUpdate"
  /\ \A i \in 2..Len(last.res.steps) :
       last.res.steps[i].kind \in {"Indexed", "NotIndexed", "NeverIndexed"}

\* C25: SetDynamicTableMaxSize(n), of the encoder, of the decoder, or reached
\* through a size update a block carries, sets the max size to n and keeps the
\* longest prefix of the table that fits in n octets, every entry kept at its
\* index
C25_Resize ==
  /\ last.op = "Encoder.SetDynamicTableMaxSize" =>
       ResizedTo(last.preEncoder, encoder, last.size)
  /\ last.op = "Decoder.SetDynamicTableMaxSize" =>
       ResizedTo(last.preDecoder, decoder, last.size)
  /\ DecodedSizeUpdate =>
       ResizedTo(last.preDecoder, decoder, last.res.steps[1].index)

\* the decoder held two entries and a size update in a block left it the newer
\* one, still the first
C25_Witness ==
  /\ DecodedSizeUpdate
  /\ Len(last.preDecoder.dynamicTable) = 2
  /\ decoder.dynamicTable = << last.preDecoder.dynamicTable[1] >>
  /\ decoder.dynamicTableSizeMax = last.res.steps[1].index

\* the representation of a first octet by its leading bits, and the prefix
\* length of its integer
KindOfOctet(octet) ==
  IF octet >= 128 THEN "Indexed"
  ELSE IF octet >= 64 THEN "IncrementalIndex"
  ELSE IF octet >= 32 THEN "DynamicSizeUpdate"
  ELSE IF octet >= 16 THEN "NeverIndexed"
  ELSE "NotIndexed"

PrefixOfKind(kind) ==
  IF kind = "Indexed" THEN 7
  ELSE IF kind = "IncrementalIndex" THEN 6
  ELSE IF kind = "DynamicSizeUpdate" THEN 5
  ELSE 4

\* C26: for every first octet parseHeaderField takes the parser of the
\* representation the leading bits name, which reads its integer under the prefix
\* of that representation, and never the branch that panics with unknown type
C26_Dispatch ==
  (last.op = "Decode" /\ last.block \in DispatchBlocks) =>
    /\ Len(last.res.steps) >= 1
    /\ last.res.steps[1].kind = KindOfOctet(last.block[1])
    /\ last.res.steps[1].index
         \in {-1, last.block[1] % Pow2(PrefixOfKind(KindOfOctet(last.block[1])))}
    /\ Len(last.block) = 4 =>
         last.res.steps[1].index
           = last.block[1] % Pow2(PrefixOfKind(KindOfOctet(last.block[1])))
    /\ last.res.err # "unknown type"

\* the octet 0x9f, with bits 0x80 and 0x10 set, was read as the Indexed
\* representation of index 31
C26_Witness ==
  /\ last.op = "Decode"
  /\ last.block = <<159, 0, 0, 0>>
  /\ last.res.steps[1].kind = "Indexed"
  /\ last.res.steps[1].index = 31

RECURSIVE DigitsValue(_)
\* the number whose little-endian base-128 digits are the low 7 bits of the octets
DigitsValue(buf) ==
  IF buf = <<>> THEN 0 ELSE (buf[1] % 128) + 128 * DigitsValue(Tail(buf))

\* the octets are the digits of one number: all but the last have bit 0x80 set,
\* the last has it clear and is not a leading zero digit
IsDigits(buf) ==
  /\ Len(buf) >= 1
  /\ \A k \in 1..(Len(buf) - 1) : buf[k] >= 128 /\ buf[k] <= 255
  /\ buf[Len(buf)] < 128
  /\ Len(buf) > 1 => buf[Len(buf)] # 0

\* C27: EncodeInteger(v, N) is the octet v when v < 2^N - 1, and otherwise the
\* octet 2^N - 1 followed by the little-endian base-128 digits of v - (2^N - 1),
\* all but the last with bit 0x80 set; the first octet stays below 2^N
C27_IntegerFormat ==
  last.op = "EncodeInteger" =>
    /\ Len(last.block) >= 1
    /\ last.block[1] < Pow2(last.size)
    /\ last.number < Pow2(last.size) - 1 => last.block = << last.number >>
    /\ last.number >= Pow2(last.size) - 1 =>
         /\ last.block[1] = Pow2(last.size) - 1
         /\ IsDigits(Tail(last.block))
         /\ DigitsValue(Tail(last.block)) = last.number - (Pow2(last.size) - 1)

\* 31 under a 5-bit prefix spilled into the two octets 31, 0, and 30 fitted in one
C27_Witness ==
  /\ last.op = "EncodeInteger"
  /\ last.size = 5
  /\ \/ last.number = 31 /\ last.block = <<31, 0>>
     \/ last.number = 1337 /\ last.block = <<31, 154, 10>>

\* C29: Decode takes at most one loop step for each octet of the block, and ends
\* with an error or with a header list
C29_DecodeTerminates ==
  last.op = "Decode" =>
    /\ Len(last.res.steps) <= Len(last.block)
    /\ last.res.st \in {"ok", "err"}

\* the encoder's table, its size and its max size are those before the last call
TableUnchanged ==
  /\ encoder.dynamicTable = last.preEncoder.dynamicTable
  /\ encoder.dynamicTableSizeCurrent = last.preEncoder.dynamicTableSizeCurrent
  /\ encoder.dynamicTableSizeMax = last.preEncoder.dynamicTableSizeMax

\* the octets of the last call after the size update that was pending
AfterPendingUpdate == Drop(last.block, Len(PendingSizeUpdate(last.preEncoder)))

\* EncodeNoDynamicIndexing left the table alone, set no pending size update, and
\* wrote no representation 01xxxxxx
NoDynamicIndexingFrame ==
  last.op = "EncodeNoDynamicIndexing" =>
    /\ TableUnchanged
    /\ encoder.pendingDynamicTableSizeUpdate =>
         last.preEncoder.pendingDynamicTableSizeUpdate
    /\ Take(last.block, Len(PendingSizeUpdate(last.preEncoder)))
         = PendingSizeUpdate(last.preEncoder)
    /\ AfterPendingUpdate # <<>>
    /\ ~(AfterPendingUpdate[1] \in 64..127)

\* EncodeIndexed of a header that is in the table with its value left the table
\* alone
FullHitFrame ==
  (/\ last.op = "EncodeIndexed"
   /\ FullMatches(JointTable(last.preEncoder), last.headers[1]) # {}) =>
    TableUnchanged

\* C30: EncodeNoDynamicIndexing never changes the dynamic table, its size or its
\* max size and never writes a literal with incremental indexing, and EncodeIndexed
\* leaves the table unchanged when the header is a full (name, value) hit
C30_PolicyFrame == NoDynamicIndexingFrame /\ FullHitFrame

====
